---- MODULE Spec2Model ----
(***************************************************************************)
(* Model of the matrix acquisition pipeline of data-portal-summary-stats: *)
(* the provider hierarchy of src/src/dpss/matrix_provider.py, the helpers *)
(* of src/src/dpss/utils.py it uses, the main loop of src/src/__main__.py *)
(* and the matrix preparation of src/src/dpss/matrix_preparer.py.         *)
(***************************************************************************)
EXTENDS Integers, Sequences, FiniteSets, TLC

\* ------------------------------------------------------------------ bounds
\* Number of identifiers get_entity_ids enumerates.
MaxIds == 3

\* Python's None, for an optional integer (sizes and times are >= 0).
None == -1

\* The identifiers, in the order get_entity_ids returns them.
Ids == 1..MaxIds

\* The size estimates get_matrix_size can answer.
Sizes == {None, 1, 2}

\* Number of identifiers in the scenarios filter_entity_id is applied in.
MaxFilterIds == 2

\* Number of objects the listing of the figures bucket holds.
MaxFigures == 2

\* Number of protocol labels one project declares.
MaxLabels == 2

FilterIds == 1..MaxFilterIds

\* Modification times (timezone-aware, so any two compare).
Times == {1, 2}

VARIABLES
    \* provider and configuration
    blacklist,          \* self.blacklist
    target_uuids,       \* config.target_uuids: [configured, uuids]
    sizes,              \* the answers of get_matrix_size, per identifier
    \* the generator object returned by iter(provider)
    gen_state,          \* "created", "running", "suspended", "finished"
    sorted_entity_ids,  \* local of __iter__
    skips,              \* local of __iter__: identifiers filter_entity_id skipped
    gen_idx,            \* position of the for loop over sorted_entity_ids
    \* main()
    pc,                 \* "loop", "next", "prepare", "stats", "done", "crashed"
    uncaught,           \* the exception that left main(), "" when none
    \* history
    requests,           \* number of next(iter_matrices) calls
    fetch_log,          \* one [id, outcome] per obtain_matrix call, in order
    calls,              \* the provider methods __iter__ called: [fn, id], in order
    failed,             \* identifiers whose preparation or statistics failed
    \* the concrete providers
    source,             \* SOURCE_NAME of the provider: "canned", "fresh", "local"
    ignore_mtime,       \* config.ignore_mtime
    figures,            \* the objects of the figures bucket when the provider was built
    figure_mtimes,      \* IdempotentMatrixProvider.figure_mtimes
    projects,           \* FreshMatrixProvider.projects
    last_filter,        \* the last filter_entity_id call: its inputs and what it did
    \* one FreshMatrixProvider.obtain_matrix call
    fpc,                \* "start", "poll", "sleep", "complete", "returned", "raised"
    fetch_id,           \* its project_id
    posts,              \* generation requests posted
    status_log,         \* the statuses the status checks returned, in order
    sleeps,             \* time.sleep calls
    slept_seconds,      \* their total
    downloads,          \* GETs of the archive
    fetch_result,       \* "MatrixInfo" returned or the exception raised, "" before
    \* one MatrixPreparer and the working directory of its matrix
    info,               \* self.info: [extract_path, lib_con_approaches]
    matrix_mtx,         \* the file matrix.mtx of extract_path
    barcodes_tsv,       \* the file barcodes.tsv of extract_path
    lca_dirs,           \* the subdirectories of extract_path: [name, matrix_mtx, links]
    before,             \* info and the files as the last call found them
    prep_call,          \* the last MatrixPreparer call: its input and what it did
    \* one Mtx object and the file at its path
    mtx_file,           \* the file at self.path: [header, sizes, lines]
    mtx_obj,            \* the object: [header, sizes, data], NoMtx before the load
    mtx_ops,            \* the methods called on it, in order, and what the last raised
    mtx_original,       \* the file as the load found it
    \* one Tsv object and the file at its path
    tsv_file,           \* the file at self.path: its lines, each a sequence of cells
    tsv_obj,            \* the object: [header, data]
    tsv_call,           \* the last call on it: its input, what it found and did
    \* the directory tree, the archives and one MatrixPreparer
    files,              \* the files: [dir, name, data]
    tree_dirs,          \* the directories
    zips,               \* the archive at each zip path: [exists, members]
    cwd,                \* the working directory of the process
    dc,                 \* the DirectoryChange objects of the caller, innermost last
    fs_info,            \* self.info: [zip_path, extract_path]
    fs_call,            \* the last call: its arguments, what it found and did
    fs_prev             \* the call before it

cfgVars == <<blacklist, target_uuids>>

pipeVars == <<sizes, gen_state, sorted_entity_ids, skips, gen_idx, pc, uncaught,
              requests, fetch_log, calls, failed>>

filterVars == <<source, ignore_mtime, figures, figure_mtimes, projects, last_filter>>

fetchVars == <<fpc, fetch_id, posts, status_log, sleeps, slept_seconds, downloads,
               fetch_result>>

prepVars == <<info, matrix_mtx, barcodes_tsv, lca_dirs, before, prep_call>>

mtxVars == <<mtx_file, mtx_obj, mtx_ops, mtx_original>>

tsvVars == <<tsv_file, tsv_obj, tsv_call>>

fsVars == <<files, tree_dirs, zips, cwd, dc, fs_info, fs_call, fs_prev>>

fileVars == <<mtxVars, tsvVars, fsVars>>

\* What the calls on an Mtx object leave alone.
notMtxVars == <<cfgVars, pipeVars, filterVars, fetchVars, prepVars, tsvVars, fsVars>>

\* What the calls on a Tsv object leave alone.
notTsvVars == <<cfgVars, pipeVars, filterVars, fetchVars, prepVars, mtxVars, fsVars>>

\* What the calls on the directory tree leave alone.
notFsVars == <<cfgVars, pipeVars, filterVars, fetchVars, prepVars, mtxVars, tsvVars>>

vars == <<cfgVars, pipeVars, filterVars, fetchVars, prepVars, fileVars>>

\* --------------------------------------------------------------- helpers
NoTargets == [configured |-> FALSE, uuids |-> {}]

SomeTargets(S) == [configured |-> TRUE, uuids |-> S]

Range(s) == {s[i] : i \in 1..Len(s)}

\* MatrixProvider.get_entity_ids: the enumeration of the backing source.
get_entity_ids == [i \in 1..MaxIds |-> i]

\* MatrixProvider.get_matrix_size as answered by the backing source.
get_matrix_size(entity_id) == sizes[entity_id]

\* What a filter_entity_id call does: it returns None, or raises.
Returns == [raised |-> "", reason |-> ""]

SkipMatrix(reason) == [raised |-> "SkipMatrix", reason |-> reason]

\* MatrixProvider.filter_entity_id
filter_entity_id(entity_id) ==
    IF entity_id \in blacklist
    THEN SkipMatrix("blacklisted")
    ELSE IF target_uuids.configured /\ entity_id \notin target_uuids.uuids
         THEN SkipMatrix("not targeted")
         ELSE Returns

\* utils.filter_exceptions with exc_cls = SkipMatrix: the non-raising items.
RECURSIVE non_raising_items(_)
non_raising_items(items) ==
    IF items = <<>>
    THEN <<>>
    ELSE IF filter_entity_id(Head(items)).raised = ""
         THEN <<Head(items)>> \o non_raising_items(Tail(items))
         ELSE non_raising_items(Tail(items))

\* utils.filter_exceptions with exc_cls = SkipMatrix: the raising items.
RECURSIVE raising_items(_)
raising_items(items) ==
    IF items = <<>>
    THEN <<>>
    ELSE IF filter_entity_id(Head(items)).raised = "SkipMatrix"
         THEN <<Head(items)>> \o raising_items(Tail(items))
         ELSE raising_items(Tail(items))

\* Mutant: a lazy filter that has looked at the first item only.
filter_calls_first_only(items) ==
    [i \in 1..(IF items = <<>> THEN 0 ELSE 1) |-> [fn |-> "filter_entity_id", id |-> items[i]]]

\* utils.filter_exceptions: func is called on every item, in order.
filter_calls(items) == [i \in 1..Len(items) |-> [fn |-> "filter_entity_id", id |-> items[i]]]

\* list.sort(key=...) computes the key of every item before it compares any.
key_calls(items) == [i \in 1..Len(items) |-> [fn |-> "get_matrix_size", id |-> items[i]]]

\* list.sort(key=...) places x in an already sorted list: after every element
\* whose key is not greater (ascending, stable).
RECURSIVE insert_sorted(_, _)
insert_sorted(s, x) ==
    IF s = <<>>
    THEN <<x>>
    ELSE IF get_matrix_size(x) < get_matrix_size(Head(s))
         THEN <<x>> \o s
         ELSE <<Head(s)>> \o insert_sorted(Tail(s), x)

RECURSIVE list_sort(_)
list_sort(items) ==
    IF items = <<>>
    THEN <<>>
    ELSE insert_sorted(list_sort(SubSeq(items, 1, Len(items) - 1)), items[Len(items)])

\* list.sort raises TypeError when it compares a None key: any list of two or
\* more elements one of whose keys is None.
sort_raises(items) ==
    Len(items) >= 2 /\ \E i \in 1..Len(items) : get_matrix_size(items[i]) = None

\* utils.sort_optionals(items, none_behavior='back', key=get_matrix_size):
\* the items that are not None themselves are sorted by key, the None items
\* appended. Identifiers are never None, so every one of them is sorted by key.
sort_optionals(items) ==
    LET not_none == SelectSeq(items, LAMBDA x : x /= None)
        none == [i \in 1..(Len(items) - Len(not_none)) |-> None]
    IN list_sort(not_none) \o none

\* ------------------------------------------------------ label classification
\* str.upper(), character by character.
ToUpper ==
    ("a" :> "A") @@ ("b" :> "B") @@ ("c" :> "C") @@ ("d" :> "D") @@ ("e" :> "E") @@
    ("f" :> "F") @@ ("g" :> "G") @@ ("h" :> "H") @@ ("i" :> "I") @@ ("j" :> "J") @@
    ("k" :> "K") @@ ("l" :> "L") @@ ("m" :> "M") @@ ("n" :> "N") @@ ("o" :> "O") @@
    ("p" :> "P") @@ ("q" :> "Q") @@ ("r" :> "R") @@ ("s" :> "S") @@ ("t" :> "T") @@
    ("u" :> "U") @@ ("v" :> "V") @@ ("w" :> "W") @@ ("x" :> "X") @@ ("y" :> "Y") @@
    ("z" :> "Z")

upper(str) == [i \in 1..Len(str) |-> IF str[i] \in DOMAIN ToUpper THEN ToUpper[str[i]] ELSE str[i]]

startswith(str, prefix) ==
    Len(str) >= Len(prefix) /\ SubSeq(str, 1, Len(prefix)) = prefix

\* Labels, as the strings of characters Azul declares them with.
SmartSeq2 == <<"S", "m", "a", "r", "t", "-", "s", "e", "q", "2">>

SmartSeq == <<"S", "m", "a", "r", "t", "-", "s", "e", "q">>

LowerSmartSeq2 == <<"s", "m", "a", "r", "t", "-", "s", "e", "q", "2">>

TenXv2 == <<"1", "0", "X", " ", "v", "2">>

LowerTenX == <<"1", "0", "x">>

DropSeq == <<"D", "r", "o", "p", "-", "s", "e", "q">>

LabelChoices == {SmartSeq2, SmartSeq, LowerSmartSeq2, TenXv2, LowerTenX, DropSeq}

\* Mutant: a label that begins with 'Smart-seq' is taken for 'Smart-seq2'.
translate_lca_by_prefix(lca) ==
    IF startswith(lca, SmartSeq)
    THEN "SS2"
    ELSE IF startswith(upper(lca), <<"1", "0", "X">>)
         THEN "10X"
         ELSE "ValueError"

\* MatrixSummaryStats.translate_lca: the short code, or "ValueError" raised.
translate_lca(lca) ==
    IF lca = SmartSeq2
    THEN "SS2"
    ELSE IF startswith(upper(lca), <<"1", "0", "X">>)
         THEN "10X"
         ELSE "ValueError"

\* ------------------------------------------------------- concrete providers
Sources == {"canned", "fresh", "local"}

\* MatrixSummaryStats.target_images and figure_format
target_images ==
    {"highest_expr_genes", "violin", "scatter_genes_vs_counts",
     "scatter_percentMitoGenes_vs_count", "highly_variable_genes", "pca", "umap",
     "rank_gene_groups"}

\* Names of the objects found in the figures bucket: figures and other files.
FigureNames == {"violin", "pca", "notes"}

FigureObjects == [uuid : FilterIds, figure : FigureNames, LastModified : Times]

ObjectKey(o) == <<o.uuid, o.figure>>

\* The listings of at most n objects, no key twice.
RECURSIVE ListingsUpTo(_)
ListingsUpTo(n) ==
    IF n = 0
    THEN {{}}
    ELSE LET smaller == ListingsUpTo(n - 1)
         IN smaller \cup
            {L \cup {o} : L \in smaller, o \in FigureObjects}

Listings ==
    {L \in ListingsUpTo(MaxFigures) :
        \A a, b \in L : ObjectKey(a) = ObjectKey(b) => a = b}

Min(S) == CHOOSE x \in S : \A y \in S : x <= y

\* IdempotentMatrixProvider.get_figure_modification_times: per uuid, the
\* oldest LastModified among its target figures; None for a uuid without one
\* (a KeyError of the dict).
get_figure_modification_times(objects) ==
    LET target == {o \in objects : o.figure \in target_images}
    IN [uuid \in FilterIds |->
           IF \E o \in target : o.uuid = uuid
           THEN Min({o.LastModified : o \in {x \in target : x.uuid = uuid}})
           ELSE None]

\* Mutant: a matrix as old as its oldest figure counts as outdated.
outdated_or_same(matrix_mtime, figure_mtime) == matrix_mtime >= figure_mtime

\* matrix_mtime > figure_mtime
outdated(matrix_mtime, figure_mtime) == matrix_mtime > figure_mtime

\* IdempotentMatrixProvider.filter_entity_id
idempotent_filter_entity_id(entity_id, matrix_mtime) ==
    IF filter_entity_id(entity_id).raised /= ""
    THEN filter_entity_id(entity_id)
    ELSE IF ignore_mtime
         THEN Returns
         ELSE IF figure_mtimes[entity_id] = None
              THEN Returns
              ELSE IF ~outdated(matrix_mtime, figure_mtimes[entity_id])
                   THEN SkipMatrix("up to date")
                   ELSE Returns

\* A project's entry in self.projects: absent, or its declared labels.
NoProject == [present |-> FALSE, project_lcas |-> <<>>]

Project(lcas) == [present |-> TRUE, project_lcas |-> lcas]

\* FreshMatrixProvider.get_project_field(project_id, 'project_lcas', [])
get_project_field(project_id) ==
    IF projects[project_id].present THEN projects[project_id].project_lcas ELSE <<>>

\* Mutant: only the first declared label is translated.
fresh_filter_first_label(project_id) ==
    IF /\ get_project_field(project_id) /= <<>>
       /\ translate_lca(get_project_field(project_id)[1]) = "ValueError"
    THEN SkipMatrix("bad azul lca")
    ELSE Returns

\* FreshMatrixProvider.filter_entity_id
fresh_filter_entity_id(project_id) ==
    IF \E i \in 1..Len(get_project_field(project_id)) :
           translate_lca(get_project_field(project_id)[i]) = "ValueError"
    THEN SkipMatrix("bad azul lca")
    ELSE Returns

\* Calls of get_matrix_modification_time that IdempotentMatrixProvider.
\* filter_entity_id makes: one, unless base filtering raised or the override
\* is on.
idempotent_mtime_lookups(entity_id) ==
    IF filter_entity_id(entity_id).raised /= ""
    THEN 0
    ELSE IF ignore_mtime THEN 0 ELSE 1

\* Calls of get_matrix_modification_time (a stat of the archive) that
\* LocalMatrixProvider.filter_entity_id makes: those of the superclass, which
\* it calls only after the archive was found to exist.
local_mtime_lookups(entity_id, exists) ==
    IF ~exists THEN 0 ELSE idempotent_mtime_lookups(entity_id)

\* Mutant: an exception of _find_species leaves the filter as it is.
local_filter_species_propagates(entity_id, exists, species_found, matrix_mtime) ==
    IF ~exists
    THEN SkipMatrix("does not exist")
    ELSE IF idempotent_filter_entity_id(entity_id, matrix_mtime).raised /= ""
         THEN idempotent_filter_entity_id(entity_id, matrix_mtime)
         ELSE IF ~species_found
              THEN [raised |-> "Exception", reason |-> "species not found"]
              ELSE Returns

\* LocalMatrixProvider.filter_entity_id; exists: mtx_path.exists(),
\* species_found: _find_species returns instead of raising.
local_filter_entity_id(entity_id, exists, species_found, matrix_mtime) ==
    IF ~exists
    THEN SkipMatrix("does not exist")
    ELSE IF idempotent_filter_entity_id(entity_id, matrix_mtime).raised /= ""
         THEN idempotent_filter_entity_id(entity_id, matrix_mtime)
         ELSE IF ~species_found
              THEN SkipMatrix("species not found")
              ELSE Returns

\* filter_entity_id of the provider get_provider_type selects.
provider_filter_entity_id(entity_id, exists, species_found, matrix_mtime) ==
    CASE source = "canned" -> idempotent_filter_entity_id(entity_id, matrix_mtime)
      [] source = "fresh" -> fresh_filter_entity_id(entity_id)
      [] source = "local" ->
            local_filter_entity_id(entity_id, exists, species_found, matrix_mtime)

\* The get_matrix_modification_time calls of that filter_entity_id.
provider_mtime_lookups(entity_id, exists) ==
    CASE source = "canned" -> idempotent_mtime_lookups(entity_id)
      [] source = "fresh" -> 0
      [] source = "local" -> local_mtime_lookups(entity_id, exists)

\* ---------------------------------------------------------------- history
fetched == [i \in 1..Len(fetch_log) |-> fetch_log[i].id]

IsOk(e) == e.outcome = "ok"

IsSkip(e) == e.outcome = "SkipMatrix"

IsError(e) == e.outcome = "Exception"

yielded == [i \in 1..Len(SelectSeq(fetch_log, IsOk)) |-> SelectSeq(fetch_log, IsOk)[i].id]

admitted == {i \in Ids : filter_entity_id(i).raised = ""}

\* ------------------------------------------------------------------- Init
\* Blacklist and target set over a set of identifiers.
AdmissionChoicesOver(S) ==
    {<<B, NoTargets>> : B \in SUBSET S}
        \cup {<<{}, SomeTargets(T)>> : T \in (SUBSET S) \ {{}}}

\* main() has not started.
PipeIdle ==
    /\ sizes = [i \in Ids |-> None]
    /\ gen_state = "created"
    /\ sorted_entity_ids = <<>>
    /\ skips = <<>>
    /\ gen_idx = 1
    /\ pc = "loop"
    /\ uncaught = ""
    /\ requests = 0
    /\ fetch_log = <<>>
    /\ calls = <<>>
    /\ failed = {}

NoCall == [entity_id |-> 0, exists |-> TRUE, species_found |-> TRUE,
           matrix_mtime |-> None, mtime_lookups |-> 0, result |-> Returns]

\* The pipeline runs on a provider with the filtering of the base class.
FilterIdle ==
    /\ source = "base"
    /\ ignore_mtime = TRUE
    /\ figures = {}
    /\ figure_mtimes = [uuid \in FilterIds |-> None]
    /\ projects = [i \in FilterIds |-> NoProject]
    /\ last_filter = NoCall

\* No remote fetch is under way.
FetchIdle ==
    /\ fpc = "idle"
    /\ fetch_id = 0
    /\ posts = 0
    /\ status_log = <<>>
    /\ sleeps = 0
    /\ slept_seconds = 0
    /\ downloads = 0
    /\ fetch_result = ""

\* No matrix has been unpacked.
NoFile == [header |-> "", sizes |-> <<0, 0, 0>>, lines |-> <<>>]

NoPrepCall ==
    [op |-> "none", keep_frac |-> [num |-> 0, den |-> 1], which_rows |-> <<>>, found_lcas |-> {},
     raised |-> "", returned |-> <<>>, ops |-> <<>>]

PrepIdle ==
    /\ info = [extract_path |-> <<>>, lib_con_approaches |-> {}]
    /\ matrix_mtx = NoFile
    /\ barcodes_tsv = <<>>
    /\ lca_dirs = {}
    /\ before = [info |-> [extract_path |-> <<>>, lib_con_approaches |-> {}],
                 matrix_mtx |-> NoFile, barcodes_tsv |-> <<>>]
    /\ prep_call = NoPrepCall

\* ------------------------------------------- archives and directories
\* Directories are paths from the root, names outermost first. The process
\* starts in one of two directories; MissingDir is never created.
WorkDir == <<"work">>

OtherDir == <<"tmp">>

MissingDir == <<"missing">>

\* MatrixInfo.extract_path and MatrixInfo.zip_path are relative to the
\* working directory; the archive sits in WorkDir.
ExtractPath == <<"matrices">>

ZipPaths == {"matrices.zip", "mock.zip"}

CanonicalFiles == <<"matrix.mtx", "genes.tsv", "barcodes.tsv">>

\* f'{filename}.gz'
gz(filename) ==
    CASE filename = "matrix.mtx" -> "matrix.mtx.gz"
      [] filename = "genes.tsv" -> "genes.tsv.gz"
      [] filename = "barcodes.tsv" -> "barcodes.tsv.gz"
      [] filename = "cells.tsv" -> "cells.tsv.gz"

\* utils.remove_ext(gzfilename, '.gz')
remove_ext(gzfilename) ==
    CASE gzfilename = "matrix.mtx.gz" -> "matrix.mtx"
      [] gzfilename = "genes.tsv.gz" -> "genes.tsv"
      [] gzfilename = "barcodes.tsv.gz" -> "barcodes.tsv"
      [] gzfilename = "cells.tsv.gz" -> "cells.tsv"

\* The bytes of a file: which file of which archive directory they came
\* from, whether they are its gzip form, whether preprocess rewrote them.
Bytes(d, filename) == [compressed |-> FALSE, of |-> <<d, filename>>, rewritten |-> FALSE]

\* gzip.open(..., 'wb') and gzip.open(..., 'rb') on the bytes
compress(data) == [data EXCEPT !.compressed = TRUE]

decompress(data) == [data EXCEPT !.compressed = FALSE]

\* The directories of an archive and what it holds of each: nothing, the
\* annotation files alone, the three files, or the three files with the
\* row annotations under the legacy name.
ArchiveDirs == {<<>>, <<"p">>}

DirKinds == {"none", "annotations", "matrix", "legacy"}

Member(d, filename) == [dir |-> d, name |-> gz(filename), data |-> compress(Bytes(d, filename))]

members(d, kind) ==
    CASE kind = "none" -> {}
      [] kind = "annotations" -> {Member(d, "genes.tsv"), Member(d, "barcodes.tsv")}
      [] kind = "matrix" ->
            {Member(d, "matrix.mtx"), Member(d, "genes.tsv"), Member(d, "barcodes.tsv")}
      [] kind = "legacy" ->
            {Member(d, "matrix.mtx"), Member(d, "genes.tsv"), Member(d, "cells.tsv")}

NoArchive == [exists |-> FALSE, members |-> {}]

\* The archives a provider delivers: at least one member, every directory
\* with a matrix file has both annotation files.
Archives ==
    {[exists |-> TRUE, members |-> UNION {members(d, kinds[d]) : d \in ArchiveDirs}] :
        kinds \in [ArchiveDirs -> DirKinds]}
      \ {[exists |-> TRUE, members |-> {}]}

\* os.path.exists(dir / name)
path_exists(fs, dir, name) == \E f \in fs : f.dir = dir /\ f.name = name

read(fs, dir, name) == (CHOOSE f \in fs : f.dir = dir /\ f.name = name).data

\* os.remove(dir / name)
remove(fs, dir, name) == {f \in fs : ~(f.dir = dir /\ f.name = name)}

\* open(dir / name, 'wb') and write
write(fs, dir, name, data) ==
    remove(fs, dir, name) \cup {[dir |-> dir, name |-> name, data |-> data]}

\* os.rename(dir / src, dir / dst): dst is replaced.
rename(fs, dir, src, dst) == write(remove(fs, dir, src), dir, dst, read(fs, dir, src))

Prefixes(path) == {SubSeq(path, 1, n) : n \in 0..Len(path)}

under(path, root) == Len(path) >= Len(root) /\ SubSeq(path, 1, Len(root)) = root

RECURSIVE write_all(_, _, _)
write_all(fs, target, ms) ==
    IF ms = {}
    THEN fs
    ELSE LET m == CHOOSE x \in ms : TRUE
         IN write_all(write(fs, target \o m.dir, m.name, m.data), target, ms \ {m})

\* ZipFile.extractall(target): the files it leaves, and the directories.
extractall_files(fs, archive, target) == write_all(fs, target, archive.members)

extractall_dirs(ds, archive, target) ==
    ds \cup UNION {{target \o p : p \in Prefixes(m.dir)} : m \in archive.members}

\* Mutant: gunzip with rm_gz=False.
gunzip_keeps_gz(fs, dir, gzfilename) ==
    write(fs, dir, remove_ext(gzfilename), decompress(read(fs, dir, gzfilename)))

\* utils.gunzip(gzfilename) of an existing file
gunzip(fs, dir, gzfilename) ==
    remove(write(fs, dir, remove_ext(gzfilename), decompress(read(fs, dir, gzfilename))),
           dir, gzfilename)

\* find_matrix(path) of unzip: the files afterwards, whether path is
\* returned, what was raised.
find_matrix(fs, path) ==
    IF ~path_exists(fs, path, "matrix.mtx.gz")
    THEN [files |-> fs, found |-> FALSE, raised |-> ""]
    ELSE LET anchor == gunzip(fs, path, "matrix.mtx.gz")
         IN IF ~path_exists(anchor, path, "genes.tsv.gz")
            THEN [files |-> anchor, found |-> FALSE, raised |-> "FileNotFoundError"]
            ELSE LET genes == gunzip(anchor, path, "genes.tsv.gz")
                     cells == IF path_exists(genes, path, "cells.tsv.gz")
                              THEN rename(genes, path, "cells.tsv.gz", "barcodes.tsv.gz")
                              ELSE genes
                 IN IF ~path_exists(cells, path, "barcodes.tsv.gz")
                    THEN [files |-> cells, found |-> FALSE, raised |-> "FileNotFoundError"]
                    ELSE [files |-> gunzip(cells, path, "barcodes.tsv.gz"),
                          found |-> TRUE, raised |-> ""]

\* root.iterdir(), the directories among the entries
iterdir(ds, root) == {d \in ds : Len(d) = Len(root) + 1 /\ under(d, root)}

\* utils.traverse_dirs(root): root, then the directories below each entry.
\* No directory here is a symbolic link.
RECURSIVE traverse_dirs(_, _)
RECURSIVE traverse_entries(_, _)
traverse_dirs(ds, root) == <<root>> \o traverse_entries(ds, iterdir(ds, root))

traverse_entries(ds, entries) ==
    IF entries = {}
    THEN <<>>
    ELSE LET entry == CHOOSE e \in entries : TRUE
         IN traverse_dirs(ds, entry) \o traverse_entries(ds, entries \ {entry})

\* filter(None, map(find_matrix, traverse_dirs(...))), consumed by the list
\* comprehension of unzip.
RECURSIVE map_find_matrix(_, _)
map_find_matrix(fs, paths) ==
    IF paths = <<>>
    THEN [files |-> fs, returned |-> <<>>, raised |-> ""]
    ELSE LET here == find_matrix(fs, Head(paths))
         IN IF here.raised /= ""
            THEN [files |-> here.files, returned |-> <<>>, raised |-> here.raised]
            ELSE LET rest == map_find_matrix(here.files, Tail(paths))
                 IN [files |-> rest.files,
                     returned |-> IF rest.raised /= ""
                                  THEN <<>>
                                  ELSE (IF here.found THEN <<Head(paths)>> ELSE <<>>)
                                           \o rest.returned,
                     raised |-> rest.raised]

\* MatrixInfo(zip_path=..., extract_path=...)
MatrixInfo(zip_path, extract_path) == [zip_path |-> zip_path, extract_path |-> extract_path]

\* path relative to the working directory
relative(path, wd) == SubSeq(path, Len(wd) + 1, Len(path))

\* Mutant: __exit__ leaves the process where the body left it.
directory_change_stays(old_dir, dir_now) == dir_now

\* DirectoryChange.__exit__: os.chdir(str(self.old_dir))
directory_change_exit(old_dir, dir_now) == old_dir

NoFound == [files |-> {}, tree_dirs |-> {}, zips |-> [z \in ZipPaths |-> NoArchive],
            info |-> MatrixInfo("None", <<>>)]

FsFound == [files |-> files, tree_dirs |-> tree_dirs, zips |-> zips, info |-> fs_info]

NoFsCall == [op |-> "none", zip_path |-> "None", flag |-> FALSE, raised |-> "",
             returned |-> <<>>, cwd |-> <<>>, found |-> NoFound]

\* A call of op in the state as it is.
FsCall(op) == [NoFsCall EXCEPT !.op = op, !.cwd = cwd, !.found = FsFound]

FsIdle ==
    /\ files = {}
    /\ tree_dirs = {}
    /\ zips = [z \in ZipPaths |-> NoArchive]
    /\ cwd = <<>>
    /\ dc = <<>>
    /\ fs_info = MatrixInfo("None", <<>>)
    /\ fs_call = NoFsCall
    /\ fs_prev = NoFsCall

NoMtx == [header |-> "", sizes |-> <<0, 0, 0>>, data |-> <<>>]

MtxIdle ==
    /\ mtx_file = NoFile
    /\ mtx_obj = NoMtx
    /\ mtx_ops = [called |-> <<>>, raised |-> ""]
    /\ mtx_original = NoFile

NoTsv == [header |-> "None", data |-> <<>>]

NoTsvCall == [op |-> "none", expected_size |-> 0, found |-> NoTsv, returned |-> "", raised |-> ""]

TsvIdle ==
    /\ tsv_file = <<>>
    /\ tsv_obj = NoTsv
    /\ tsv_call = NoTsvCall

FileIdle == MtxIdle /\ TsvIdle /\ FsIdle

Init ==
    /\ \E c \in AdmissionChoicesOver(Ids) : blacklist = c[1] /\ target_uuids = c[2]
    /\ sizes \in [Ids -> Sizes]
    /\ gen_state = "created"
    /\ sorted_entity_ids = <<>>
    /\ skips = <<>>
    /\ gen_idx = 1
    /\ pc = "loop"
    /\ uncaught = ""
    /\ requests = 0
    /\ fetch_log = <<>>
    /\ calls = <<>>
    /\ failed = {}
    /\ FilterIdle
    /\ FetchIdle
    /\ PrepIdle
    /\ FileIdle

\* ---------------------------------------------------------------- actions
\* main: download_mtx_info = next(iter_matrices)
MainNext ==
    /\ pc = "loop"
    /\ pc' = "next"
    /\ requests' = requests + 1
    /\ gen_state' = IF gen_state = "suspended" THEN "running" ELSE gen_state
    /\ UNCHANGED <<filterVars, fetchVars, prepVars, fileVars>>
    /\ UNCHANGED <<blacklist, target_uuids, sizes, sorted_entity_ids, skips,
                   gen_idx, uncaught, fetch_log, calls, failed>>

\* __iter__ up to its for loop: enumerate, filter, sort. A TypeError of the
\* sort leaves the generator and next(), and main() does not catch it.
GenStart ==
    /\ pc = "next"
    /\ gen_state = "created"
    /\ skips' = raising_items(get_entity_ids)
    /\ IF sort_raises(non_raising_items(get_entity_ids))
       THEN /\ gen_state' = "finished"
            /\ pc' = "crashed"
            /\ uncaught' = "TypeError"
            /\ UNCHANGED sorted_entity_ids
       ELSE /\ gen_state' = "running"
            /\ sorted_entity_ids' = sort_optionals(non_raising_items(get_entity_ids))
            /\ UNCHANGED <<pc, uncaught>>
    /\ calls' = calls \o filter_calls(get_entity_ids)
                      \o key_calls(non_raising_items(get_entity_ids))
    /\ UNCHANGED <<filterVars, fetchVars, prepVars, fileVars>>
    /\ UNCHANGED <<blacklist, target_uuids, sizes, gen_idx, requests, fetch_log, failed>>

\* Mutant: the fetches run ahead of the caller's requests.
obtain_matrix_called_eager ==
    /\ pc \in {"next", "prepare", "stats"}
    /\ gen_state \in {"running", "suspended"}
    /\ gen_idx <= Len(sorted_entity_ids)

\* The for loop of __iter__ calls obtain_matrix while a next() is being served.
obtain_matrix_called ==
    /\ pc = "next"
    /\ gen_state = "running"
    /\ gen_idx <= Len(sorted_entity_ids)

\* The generator after obtain_matrix returned or raised.
gen_after(outcome) ==
    CASE outcome = "ok" -> "suspended"
      [] outcome = "SkipMatrix" -> "running"
      [] OTHER -> "finished"

\* Mutant: __iter__ without its except clause, the skip signal leaves main().
main_after_propagates(outcome) ==
    CASE outcome = "ok" -> "prepare"
      [] OTHER -> "crashed"

\* main() after obtain_matrix returned or raised inside next().
main_after(outcome) ==
    CASE outcome = "ok" -> "prepare"
      [] outcome = "SkipMatrix" -> "next"
      [] OTHER -> "crashed"

\* yield self.obtain_matrix(entity_id), except SkipMatrix
GenFetch ==
    /\ obtain_matrix_called
    /\ \E outcome \in {"ok", "SkipMatrix", "Exception"} :
        /\ fetch_log' = Append(fetch_log,
                               [id |-> sorted_entity_ids[gen_idx], outcome |-> outcome])
        /\ calls' = Append(calls, [fn |-> "obtain_matrix", id |-> sorted_entity_ids[gen_idx]])
        /\ gen_state' = gen_after(outcome)
        /\ pc' = main_after(outcome)
        /\ uncaught' = IF main_after(outcome) = "crashed" THEN outcome ELSE uncaught
    /\ gen_idx' = gen_idx + 1
    /\ UNCHANGED <<filterVars, fetchVars, prepVars, fileVars>>
    /\ UNCHANGED <<blacklist, target_uuids, sizes, sorted_entity_ids, skips,
                   requests, failed>>

\* The for loop is over: StopIteration, main() breaks.
GenStop ==
    /\ pc = "next"
    /\ \/ gen_state = "running" /\ gen_idx > Len(sorted_entity_ids)
       \/ gen_state = "finished"
    /\ gen_state' = "finished"
    /\ pc' = "done"
    /\ UNCHANGED <<filterVars, fetchVars, prepVars, fileVars>>
    /\ UNCHANGED <<blacklist, target_uuids, sizes, sorted_entity_ids, skips,
                   gen_idx, uncaught, requests, fetch_log, calls, failed>>

\* main: unzip, preprocess, separate; any exception is logged, then continue.
Prepare ==
    /\ pc = "prepare"
    /\ \E ok \in BOOLEAN :
        IF ok
        THEN pc' = "stats" /\ UNCHANGED failed
        ELSE pc' = "loop" /\ failed' = failed \cup {fetch_log[Len(fetch_log)].id}
    /\ UNCHANGED <<filterVars, fetchVars, prepVars, fileVars>>
    /\ UNCHANGED <<blacklist, target_uuids, sizes, gen_state, sorted_entity_ids,
                   skips, gen_idx, uncaught, requests, fetch_log, calls>>

\* main: load_data, create_images, upload; any exception is logged, then continue.
Stats ==
    /\ pc = "stats"
    /\ \E ok \in BOOLEAN :
        failed' = IF ok THEN failed ELSE failed \cup {fetch_log[Len(fetch_log)].id}
    /\ pc' = "loop"
    /\ UNCHANGED <<filterVars, fetchVars, prepVars, fileVars>>
    /\ UNCHANGED <<blacklist, target_uuids, sizes, gen_state, sorted_entity_ids,
                   skips, gen_idx, uncaught, requests, fetch_log, calls>>

Next == MainNext \/ GenStart \/ GenFetch \/ GenStop \/ Prepare \/ Stats

Spec == Init /\ [][Next]_vars

\* ------------------------------------------------- filtering, per provider
\* Label lists of at most n labels.
RECURSIVE LabelListsUpTo(_)
LabelListsUpTo(n) ==
    IF n = 0
    THEN {<<>>}
    ELSE LET shorter == LabelListsUpTo(n - 1)
         IN shorter \cup {Append(l, x) : l \in shorter, x \in LabelChoices}

\* self.projects as _get_project_info_from_azul builds it: here with at most
\* one hit.
ProjectChoices ==
    {[i \in FilterIds |-> NoProject]}
        \cup {[i \in FilterIds |-> IF i = p THEN Project(l) ELSE NoProject] :
                 p \in FilterIds, l \in LabelListsUpTo(MaxLabels)}

\* A provider of one of the three sources has been constructed.
InitFilter ==
    /\ PipeIdle
    /\ source \in Sources
    /\ \E c \in AdmissionChoicesOver(FilterIds) : blacklist = c[1] /\ target_uuids = c[2]
    /\ IF source = "fresh"
       THEN /\ ignore_mtime = FALSE
            /\ figures = {}
            /\ projects \in ProjectChoices
       ELSE /\ ignore_mtime \in BOOLEAN
            /\ figures \in Listings
            /\ projects = [i \in FilterIds |-> NoProject]
    /\ figure_mtimes = get_figure_modification_times(figures)
    /\ last_filter = NoCall
    /\ FetchIdle
    /\ PrepIdle
    /\ FileIdle

\* provider.filter_entity_id(entity_id), as the for loop of filter_exceptions
\* calls it on one enumerated identifier after the other.
FilterEntity ==
    /\ source \in Sources
    /\ \E entity_id \in FilterIds, mtime \in Times, exists \in BOOLEAN, found \in BOOLEAN :
        /\ entity_id = last_filter.entity_id + 1
        /\ source /= "local" => exists /\ found
        /\ source = "fresh" => mtime = Min(Times)
        /\ last_filter' =
              [entity_id |-> entity_id, exists |-> exists, species_found |-> found,
               matrix_mtime |-> mtime,
               mtime_lookups |-> provider_mtime_lookups(entity_id, exists),
               result |-> provider_filter_entity_id(entity_id, exists, found, mtime)]
    /\ UNCHANGED <<cfgVars, pipeVars, fetchVars, prepVars, fileVars>>
    /\ UNCHANGED <<source, ignore_mtime, figures, figure_mtimes, projects>>

NextFilter == FilterEntity

SpecFilter == InitFilter /\ [][NextFilter]_vars

\* ------------------------------------------------- the remote-service fetch
\* Number of 'In Progress' answers the matrix service gives to one request.
MaxInProgress == 3

\* time.sleep(30)
SleepSeconds == 30

\* What the status endpoint can answer.
Statuses == {"Complete", "In Progress", "Failed", "Expired"}

\* A FreshMatrixProvider has been constructed and obtain_matrix is called.
InitFetch ==
    /\ PipeIdle
    /\ PrepIdle
    /\ FileIdle
    /\ blacklist = {}
    /\ target_uuids = NoTargets
    /\ source = "fresh"
    /\ ignore_mtime = FALSE
    /\ figures = {}
    /\ figure_mtimes = [uuid \in FilterIds |-> None]
    /\ projects \in ProjectChoices
    /\ last_filter = NoCall
    /\ fpc = "start"
    /\ fetch_id \in FilterIds
    /\ posts = 0
    /\ status_log = <<>>
    /\ sleeps = 0
    /\ slept_seconds = 0
    /\ downloads = 0
    /\ fetch_result = ""

\* obtain_matrix: the labels of the project, translated.
lib_con_approaches(project_id) ==
    {translate_lca(get_project_field(project_id)[i]) :
        i \in 1..Len(get_project_field(project_id))}

\* obtain_matrix up to the while loop of _request_matrix: translate the labels
\* (a ValueError leaves obtain_matrix), post the request.
RequestMatrix ==
    /\ fpc = "start"
    /\ IF "ValueError" \in lib_con_approaches(fetch_id)
       THEN /\ fpc' = "raised"
            /\ fetch_result' = "ValueError"
            /\ UNCHANGED posts
       ELSE /\ fpc' = "poll"
            /\ posts' = posts + 1
            /\ UNCHANGED fetch_result
    /\ UNCHANGED <<cfgVars, pipeVars, filterVars, prepVars, fileVars>>
    /\ UNCHANGED <<fetch_id, status_log, sleeps, slept_seconds, downloads>>

\* Mutant: 'In Progress' polls again at once, without the sleep.
after_status_busy_poll(status) ==
    IF status = "Complete"
    THEN "complete"
    ELSE IF status = "In Progress"
         THEN "poll"
         ELSE "raised"

\* Mutant: an unexpected status is handled like 'In Progress'.
after_status_retries_unknown(status) ==
    IF status = "Complete" THEN "complete" ELSE "sleep"

\* Mutant: on an unexpected status the loop neither returns nor raises.
after_status_hangs(status) ==
    IF status = "Complete"
    THEN "complete"
    ELSE IF status = "In Progress"
         THEN "sleep"
         ELSE "hung"

\* _request_matrix: where the while loop goes on a status.
after_status(status) ==
    IF status = "Complete"
    THEN "complete"
    ELSE IF status = "In Progress"
         THEN "sleep"
         ELSE "raised"

\* _request_matrix: what the while loop raises on a status.
raised_on_status(status) ==
    IF status \in {"Complete", "In Progress"} THEN "" ELSE "RuntimeError"

\* _request_matrix: one status check of the while loop.
CheckStatus ==
    /\ fpc = "poll"
    /\ \E status \in Statuses :
        /\ status = "In Progress" =>
              Len(SelectSeq(status_log, LAMBDA x : x = "In Progress")) < MaxInProgress
        /\ status_log' = Append(status_log, status)
        /\ fpc' = after_status(status)
        /\ fetch_result' = raised_on_status(status)
    /\ UNCHANGED <<cfgVars, pipeVars, filterVars, prepVars, fileVars>>
    /\ UNCHANGED <<fetch_id, posts, sleeps, slept_seconds, downloads>>

\* _request_matrix: time.sleep(30) of the 'In Progress' branch.
Sleep ==
    /\ fpc = "sleep"
    /\ sleeps' = sleeps + 1
    /\ slept_seconds' = slept_seconds + SleepSeconds
    /\ fpc' = "poll"
    /\ UNCHANGED <<cfgVars, pipeVars, filterVars, prepVars, fileVars>>
    /\ UNCHANGED <<fetch_id, posts, status_log, downloads, fetch_result>>

\* obtain_matrix after _request_matrix returned: download the archive and
\* return the MatrixInfo.
Download ==
    /\ fpc = "complete"
    /\ downloads' = downloads + 1
    /\ fetch_result' = "MatrixInfo"
    /\ fpc' = "returned"
    /\ UNCHANGED <<cfgVars, pipeVars, filterVars, prepVars, fileVars>>
    /\ UNCHANGED <<fetch_id, posts, status_log, sleeps, slept_seconds>>

NextFetch == RequestMatrix \/ CheckStatus \/ Sleep \/ Download

SpecFetch == InitFetch /\ [][NextFetch]_vars

\* The thread of obtain_matrix keeps running: every request is answered and
\* every time.sleep returns. The matrix service answers 'In Progress' at most
\* MaxInProgress times, that is, it eventually answers something else.
SpecFetchFair == SpecFetch /\ WF_vars(NextFetch)

\* ------------------------------------------------------ matrix preparation
\* Number of data rows (nonzero entries) of a matrix file.
MaxRows == 3

\* The identifier cells of barcodes.tsv, one per line.
BarcodeIds == << <<"A">>, <<"B">> >>

BarcodeLines == DOMAIN BarcodeIds

\* Labels found in the label column of barcodes.tsv.
TenX == <<"1", "0", "X">>

NoHyphenSmartSeq2 == <<"s", "m", "a", "r", "t", "s", "e", "q", "2">>

TwentyX == <<"2", "0", "x">>

ColumnLabels == {SmartSeq2, TenX, TenXv2, LowerTenX, SmartSeq, NoHyphenSmartSeq2, TwentyX}

\* The short codes translate_lca returns, as the strings they are.
Chars == ("SS2" :> <<"S", "S", "2">>) @@ ("10X" :> <<"1", "0", "X">>)

Codes == DOMAIN Chars

\* The digits, as characters of a file and as numbers.
DigitChars == <<"0", "1", "2", "3", "4", "5", "6", "7", "8", "9">>

digit(c) == (CHOOSE k \in DOMAIN DigitChars : DigitChars[k] = c) - 1

\* The count field of a data line as the file spells it: '1', '2.5', '1.50'.
One == <<"1">>

CountTokens == {One, <<"2", ".", "5">>, <<"1", ".", "5", "0">>}

\* int() of a string of digits
RECURSIVE int(_)
int(digits) ==
    IF digits = <<>>
    THEN 0
    ELSE 10 * int(SubSeq(digits, 1, Len(digits) - 1)) + digit(digits[Len(digits)])

\* str() of an integer n >= 0
RECURSIVE str(_)
str(n) ==
    IF n < 10
    THEN <<DigitChars[n + 1]>>
    ELSE str(n \div 10) \o <<DigitChars[(n % 10) + 1]>>

\* The parser reads a token with a decimal point as a float.
has_point(token) == \E k \in 1..Len(token) : token[k] = "."

point(token) == CHOOSE k \in 1..Len(token) : token[k] = "."

\* The value of a token, in tenths (the tokens here have no further nonzero
\* decimal).
tenths(token) ==
    IF has_point(token)
    THEN 10 * int(SubSeq(token, 1, point(token) - 1)) + digit(token[point(token) + 1])
    ELSE 10 * int(token)

\* Mutant: a float is written with two decimals.
str_value_two_decimals(value) ==
    IF value.float
    THEN str(value.tenths \div 10) \o <<".">> \o str(value.tenths % 10) \o <<"0">>
    ELSE str(value.tenths \div 10)

\* to_csv writes a value of an integer column as str(int) and a value of a
\* float column as repr(float): '1', '1.0', '2.5'.
str_value(value) ==
    IF value.float
    THEN str(value.tenths \div 10) \o <<".">> \o str(value.tenths % 10)
    ELSE str(value.tenths \div 10)

\* matrix.mtx after unzip and preprocess: the '%' header line, the sizes line
\* and one line of three fields (gene_idx, barcode_idx, count) per entry, no
\* (gene_idx, barcode_idx) twice.
MatrixFiles ==
    UNION {{[header |-> "%%MatrixMarket",
             sizes |-> <<MaxRows, Len(BarcodeIds), n>>,
             lines |-> [k \in 1..n |-> <<k, b[k], One>>]] :
              b \in [1..n -> BarcodeLines]} : n \in 1..MaxRows}

\* barcodes.tsv after preprocess: the identifier column alone, or followed by
\* the label column.
BarcodesFiles ==
    {[i \in BarcodeLines |-> <<BarcodeIds[i]>>]}
        \cup {[i \in BarcodeLines |-> <<BarcodeIds[i], l[i]>>] :
                 l \in [BarcodeLines -> ColumnLabels]}

\* keep_frac values, as exact fractions.
KeepFracs == {[num |-> q, den |-> 4] : q \in {-1, 0, 1, 2, 3, 4, 5}}

\* The dtype pd.read_csv gives the last column: float64 when a token of it
\* has a decimal point, int64 otherwise.
float_column(lines) == \E i \in 1..Len(lines) : has_point(lines[i][Len(lines[i])])

\* The three columns read from a line: two indices and the count, parsed
\* under the dtype of its column.
parsed(fields, float) ==
    <<fields[1], fields[2], [float |-> float, tenths |-> tenths(fields[3])]>>

\* pd.read_csv of the data lines of a matrix file under the three column
\* names of the sizes line: a line of three fields gets its position as index
\* label; of a line with one field more, the first field is the index label.
read_csv(lines) ==
    [i \in 1..Len(lines) |->
        IF Len(lines[i]) = 4
        THEN [label |-> lines[i][1], cols |-> parsed(Tail(lines[i]), float_column(lines))]
        ELSE [label |-> i - 1, cols |-> parsed(lines[i], float_column(lines))]]

\* Mtx.__init__
Mtx(file) == [header |-> file.header, sizes |-> file.sizes, data |-> read_csv(file.lines)]

\* Mtx.__len__
len(mtx) == mtx.sizes[3]

\* DataFrame.iloc[which_rows, :]: the rows at the positions, in their order.
iloc(data, which_rows) == [i \in 1..Len(which_rows) |-> data[which_rows[i] + 1]]

\* np.flatnonzero(~keep_labels): the positions of the rows the predicate
\* rejects; keep_labels is self.data.apply(which_rows, axis=1), the answers of
\* the predicate row by row.
flatnonzero_not(keep_labels) ==
    {i - 1 : i \in {j \in 1..Len(keep_labels) : ~keep_labels[j]}}

\* DataFrame.drop(labels=...): the rows whose index label is not among them.
drop(data, labels) == SelectSeq(data, LAMBDA row : row.label \notin labels)

\* DataFrame.reset_index(): the index becomes a column, the first one, and
\* the rows are labelled by their position.
reset_index(data) ==
    [i \in 1..Len(data) |-> [label |-> i - 1, cols |-> <<data[i].label>> \o data[i].cols]]

\* Mutant: filter_entries leaves the declared number of entries alone.
filter_entries_stale_sizes(mtx, which_rows) ==
    [header |-> mtx.header,
     sizes |-> mtx.sizes,
     data |-> reset_index(iloc(mtx.data, which_rows))]

\* Mtx.filter_entries with a sequence of row positions
filter_entries_indices(mtx, which_rows) ==
    [header |-> mtx.header,
     sizes |-> [mtx.sizes EXCEPT ![3] = Len(iloc(mtx.data, which_rows))],
     data |-> reset_index(iloc(mtx.data, which_rows))]

\* Mtx.filter_entries with a predicate, given by its answers keep_labels
filter_entries_callable(mtx, keep_labels) ==
    [header |-> mtx.header,
     sizes |-> [mtx.sizes EXCEPT ![3] = Len(drop(mtx.data, flatnonzero_not(keep_labels)))],
     data |-> reset_index(drop(mtx.data, flatnonzero_not(keep_labels)))]

\* A row as to_csv(index=False, header=False) writes it: every column, the
\* count (the last one) as text.
to_csv(cols) ==
    SubSeq(cols, 1, Len(cols) - 1) \o <<str_value(cols[Len(cols)])>>

\* Mtx.write: header line, sizes line, and every column of the data per line.
mtx_write(mtx) ==
    [header |-> mtx.header,
     sizes |-> mtx.sizes,
     lines |-> [i \in 1..Len(mtx.data) |-> to_csv(mtx.data[i].cols)]]

\* np.issubdtype(self.data.dtypes[2], np.integer): the third column of the
\* frame is the count column as loaded, and an index column of integers once
\* reset_index has put one in front.
third_column_is_integer(mtx) ==
    \A i \in 1..Len(mtx.data) :
        Len(mtx.data[i].cols) > 3 \/ ~mtx.data[i].cols[3].float

\* What Mtx.process returns.
process_returns(mtx) == ~third_column_is_integer(mtx)

\* Python's round() of num / den >= 0: to the nearest integer, a tie to the
\* even one; np.rint rounds the same way.
round(num, den) ==
    IF 2 * (num % den) < den
    THEN num \div den
    ELSE IF 2 * (num % den) > den
         THEN (num \div den) + 1
         ELSE IF (num \div den) % 2 = 0 THEN num \div den ELSE (num \div den) + 1

\* np.rint(count).astype(np.int32)
rint_astype_int(value) == [float |-> FALSE, tenths |-> 10 * round(value.tenths, 10)]

\* Mtx.process: the object afterwards.
process(mtx) ==
    IF process_returns(mtx)
    THEN [mtx EXCEPT !.data =
             [i \in 1..Len(mtx.data) |->
                 [mtx.data[i] EXCEPT !.cols[3] = rint_astype_int(mtx.data[i].cols[3])]]]
    ELSE mtx

\* Mutant: 0 counts as a fraction to keep.
valid_keep_frac_or_zero(keep_frac) ==
    /\ 0 <= keep_frac.num
    /\ keep_frac.num <= keep_frac.den

\* 0 < keep_frac <= 1
valid_keep_frac(keep_frac) ==
    /\ 0 < keep_frac.num
    /\ keep_frac.num <= keep_frac.den

\* The sequences of k different elements of S.
RECURSIVE Arrangements(_, _)
Arrangements(S, k) ==
    IF k = 0
    THEN {<<>>}
    ELSE UNION {{<<x>> \o a : a \in Arrangements(S \ {x}, k - 1)} : x \in S}

\* Mutant: a position can be drawn more than once.
choice_with_replacement(n, size) == [1..size -> 0..(n - 1)]

\* np.random.choice(np.arange(n), size, replace=False): what it can return.
choice(n, size) == Arrangements(0..(n - 1), size)

\* What a call found: self.info and the files of extract_path.
Snapshot == [info |-> info, matrix_mtx |-> matrix_mtx, barcodes_tsv |-> barcodes_tsv]

\* MatrixPreparer.prune(keep_frac)
Prune ==
    /\ prep_call.op = "none"
    /\ info.extract_path /= <<>>
    /\ \E keep_frac \in KeepFracs :
        IF ~valid_keep_frac(keep_frac)
        THEN /\ prep_call' = [NoPrepCall EXCEPT !.op = "prune",
                                                !.keep_frac = keep_frac,
                                                !.raised = "ValueError"]
             /\ UNCHANGED matrix_mtx
        ELSE \E which_rows \in choice(len(Mtx(matrix_mtx)),
                                      round(keep_frac.num * len(Mtx(matrix_mtx)),
                                            keep_frac.den)) :
                /\ matrix_mtx' = mtx_write(filter_entries_indices(Mtx(matrix_mtx), which_rows))
                /\ prep_call' = [NoPrepCall EXCEPT
                                    !.op = "prune",
                                    !.keep_frac = keep_frac,
                                    !.which_rows = which_rows,
                                    !.ops = <<"read matrix.mtx", "write matrix.mtx">>]
    /\ before' = Snapshot
    /\ UNCHANGED <<info, barcodes_tsv, lca_dirs>>
    /\ UNCHANGED <<cfgVars, pipeVars, filterVars, fetchVars, fileVars>>

\* Tsv.__init__ with header = False: the lines as rows of cells.
Tsv(file) == [header |-> "None", data |-> file]

\* Tsv.write
tsv_write(tsv) == tsv.data

\* Mutant: any column at all counts as the label column.
has_column_0(data) == Len(data[1]) >= 1

\* barcodes.data.columns[1] exists (no IndexError).
has_column_1(data) == Len(data[1]) >= 2

\* The Series barcodes.data.pop(barcodes.data.columns[1]) returns.
popped(data) == [i \in 1..Len(data) |-> IF Len(data[i]) >= 2 THEN data[i][2] ELSE <<>>]

\* barcodes.data after that pop.
pop(data) ==
    [i \in 1..Len(data) |-> <<data[i][1]>> \o SubSeq(data[i], 3, Len(data[i]))]

\* lib_con_data.map(MatrixSummaryStats.translate_lca), as a set; it raises
\* ValueError when translate_lca does for a cell.
map_raises(lib_con_data) ==
    \E i \in 1..Len(lib_con_data) : translate_lca(lib_con_data[i]) = "ValueError"

map_translate_lca(lib_con_data) ==
    {translate_lca(lib_con_data[i]) : i \in 1..Len(lib_con_data)}

\* Mutant: any found set is accepted.
reconcile_accepts_all(found_lcas, known_lcas) ==
    IF known_lcas = {} THEN "fill" ELSE "all"

\* The if/elif chain of separate() on found_lcas and the known set: the branch
\* taken.
reconcile(found_lcas, known_lcas) ==
    IF known_lcas = {}
    THEN "fill"
    ELSE IF found_lcas = known_lcas
         THEN "all"
         ELSE IF found_lcas \subseteq known_lcas /\ found_lcas /= known_lcas
              THEN "not all"
              ELSE "RuntimeError"

\* Mutant: no label set counts as homogeneous.
homogeneous_never(known_lcas) == FALSE

\* len(self.info.lib_con_approaches) == 1
homogeneous(known_lcas) == Cardinality(known_lcas) = 1

\* matrix_filter(entry) of separate(): the label of the barcode line of the
\* entry, as the file has it, equals lca, the code of the directory.
matrix_filter(lib_con_data, lca, entry) == lib_con_data[entry.cols[2]] = Chars[lca]

\* self.data.apply(matrix_filter, axis=1)
apply_matrix_filter(data, lib_con_data, lca) ==
    [i \in 1..Len(data) |-> matrix_filter(lib_con_data, lca, data[i])]

\* One round of the for loop of separate(): the directory of lca.
lca_dir(file, lib_con_data, lca) ==
    [name |-> lca,
     matrix_mtx |-> mtx_write(filter_entries_callable(
                        Mtx(file), apply_matrix_filter(Mtx(file).data, lib_con_data, lca))),
     links |-> {"genes.tsv", "barcodes.tsv"}]

LoopOps == <<"mkdir", "read matrix.mtx", "write lca_dir/matrix.mtx", "symlink", "symlink">>

\* Mutant: the descriptors of the labels share the parent's path.
separated_in_place(extract_path, order) ==
    [i \in 1..Len(order) |->
        [extract_path |-> extract_path, lib_con_approaches |-> {order[i]}]]

\* The list separate() returns after the loop: one MatrixInfo per label.
separated(extract_path, order) ==
    [i \in 1..Len(order) |->
        [extract_path |-> extract_path \o <<order[i]>>, lib_con_approaches |-> {order[i]}]]

\* MatrixPreparer.separate()
Separate ==
    /\ prep_call.op = "none"
    /\ info.extract_path /= <<>>
    /\ before' = Snapshot
    /\ LET barcodes == Tsv(barcodes_tsv)
           lib_con_data == popped(barcodes.data)
           found_lcas == map_translate_lca(lib_con_data)
           call == [NoPrepCall EXCEPT !.op = "separate"]
       IN IF ~has_column_1(barcodes.data)
          THEN /\ prep_call' = [call EXCEPT !.returned = <<info>>,
                                             !.ops = <<"read barcodes.tsv">>]
               /\ UNCHANGED <<info, barcodes_tsv, lca_dirs>>
          ELSE /\ barcodes_tsv' = tsv_write([barcodes EXCEPT !.data = pop(barcodes.data)])
               /\ IF map_raises(lib_con_data)
                  THEN /\ prep_call' =
                            [call EXCEPT !.raised = "ValueError",
                                         !.ops = <<"read barcodes.tsv", "write barcodes.tsv">>]
                       /\ UNCHANGED <<info, lca_dirs>>
                  ELSE IF reconcile(found_lcas, info.lib_con_approaches) = "RuntimeError"
                  THEN /\ prep_call' =
                            [call EXCEPT !.raised = "RuntimeError",
                                         !.found_lcas = found_lcas,
                                         !.ops = <<"read barcodes.tsv", "write barcodes.tsv">>]
                       /\ UNCHANGED <<info, lca_dirs>>
                  ELSE /\ info' = [info EXCEPT !.lib_con_approaches = found_lcas]
                       /\ IF homogeneous(found_lcas)
                          THEN /\ prep_call' =
                                    [call EXCEPT
                                        !.found_lcas = found_lcas,
                                        !.returned = <<info'>>,
                                        !.ops = <<"read barcodes.tsv", "write barcodes.tsv">>]
                               /\ UNCHANGED lca_dirs
                          ELSE \E order \in Arrangements(found_lcas, Cardinality(found_lcas)) :
                                  /\ lca_dirs' =
                                        {lca_dir(matrix_mtx, lib_con_data, lca) :
                                            lca \in found_lcas}
                                  /\ prep_call' =
                                        [call EXCEPT
                                            !.found_lcas = found_lcas,
                                            !.returned = separated(info.extract_path, order),
                                            !.ops =
                                               <<"read barcodes.tsv", "write barcodes.tsv">>
                                                  \o [i \in 1..(Len(LoopOps) * Len(order)) |->
                                                         LoopOps[((i - 1) % Len(LoopOps)) + 1]]]
    /\ UNCHANGED matrix_mtx
    /\ UNCHANGED <<cfgVars, pipeVars, filterVars, fetchVars, fileVars>>

\* A matrix has been unpacked and normalised into extract_path.
InitPrep ==
    /\ PipeIdle
    /\ blacklist = {}
    /\ target_uuids = NoTargets
    /\ FilterIdle
    /\ FetchIdle
    /\ info \in [extract_path : {<<"matrix">>}, lib_con_approaches : SUBSET Codes]
    /\ matrix_mtx \in MatrixFiles
    /\ barcodes_tsv \in BarcodesFiles
    /\ lca_dirs = {}
    /\ before = Snapshot
    /\ prep_call = NoPrepCall
    /\ FileIdle

NextPrep == Prune \/ Separate

SpecPrep == InitPrep /\ [][NextPrep]_vars

\* ------------------------------------------------------- one Mtx object
\* Method calls on one Mtx object, the load included.
MaxMtxOps == 4

\* Data lines of the file the object is loaded from.
MaxEntries == 2

\* A valid coordinate-list file: the declared number of entries is the number
\* of data lines, every line has two indices and a count.
MtxFiles ==
    UNION {{[header |-> "%%MatrixMarket",
             sizes |-> <<MaxEntries, 1, n>>,
             lines |-> [k \in 1..n |-> <<k, 1, t[k]>>]] :
              t \in [1..n -> CountTokens]} : n \in 1..MaxEntries}

\* The object can be called: it is loaded and no call on it has raised (an
\* exception leaves prune, preprocess or separate, and the object with it).
MtxUsable ==
    /\ mtx_ops.called /= <<>>
    /\ mtx_ops.raised = ""
    /\ Len(mtx_ops.called) < MaxMtxOps

Called(method) == [mtx_ops EXCEPT !.called = Append(@, method)]

\* reset_index() names the column it inserts 'index', or 'level_0' when there
\* is an 'index' column; it raises ValueError when both are there.
reset_index_raises ==
    Len(SelectSeq(mtx_ops.called, LAMBDA m : m = "filter_entries")) >= 2

\* mtx = Mtx(path)
MtxLoad ==
    /\ mtx_ops.called = <<>>
    /\ mtx_file /= NoFile
    /\ mtx_obj' = Mtx(mtx_file)
    /\ mtx_ops' = Called("__init__")
    /\ UNCHANGED <<mtx_file, mtx_original>>
    /\ UNCHANGED notMtxVars

\* mtx.process()
MtxProcess ==
    /\ MtxUsable
    /\ mtx_obj' = process(mtx_obj)
    /\ mtx_ops' = Called("process")
    /\ UNCHANGED <<mtx_file, mtx_original>>
    /\ UNCHANGED notMtxVars

\* mtx.filter_entries(which_rows) with row positions
MtxFilterIndices ==
    /\ MtxUsable
    /\ \E size \in 0..Len(mtx_obj.data) :
        \E which_rows \in choice(Len(mtx_obj.data), size) :
            IF reset_index_raises
            THEN /\ mtx_obj' = [mtx_obj EXCEPT !.data = iloc(mtx_obj.data, which_rows)]
                 /\ mtx_ops' = [Called("filter_entries") EXCEPT !.raised = "ValueError"]
            ELSE /\ mtx_obj' = filter_entries_indices(mtx_obj, which_rows)
                 /\ mtx_ops' = Called("filter_entries")
    /\ UNCHANGED <<mtx_file, mtx_original>>
    /\ UNCHANGED notMtxVars

\* mtx.filter_entries(which_rows) with a predicate
MtxFilterCallable ==
    /\ MtxUsable
    /\ \E keep_labels \in [1..Len(mtx_obj.data) -> BOOLEAN] :
            IF reset_index_raises
            THEN /\ mtx_obj' = [mtx_obj EXCEPT
                                   !.data = drop(mtx_obj.data, flatnonzero_not(keep_labels))]
                 /\ mtx_ops' = [Called("filter_entries") EXCEPT !.raised = "ValueError"]
            ELSE /\ mtx_obj' = filter_entries_callable(mtx_obj, keep_labels)
                 /\ mtx_ops' = Called("filter_entries")
    /\ UNCHANGED <<mtx_file, mtx_original>>
    /\ UNCHANGED notMtxVars

\* mtx.write()
MtxWrite ==
    /\ MtxUsable
    /\ mtx_file' = mtx_write(mtx_obj)
    /\ mtx_ops' = Called("write")
    /\ UNCHANGED <<mtx_obj, mtx_original>>
    /\ UNCHANGED notMtxVars

InitMtx ==
    /\ PipeIdle
    /\ blacklist = {}
    /\ target_uuids = NoTargets
    /\ FilterIdle
    /\ FetchIdle
    /\ PrepIdle
    /\ TsvIdle
    /\ FsIdle
    /\ mtx_file \in MtxFiles
    /\ mtx_obj = NoMtx
    /\ mtx_ops = [called |-> <<>>, raised |-> ""]
    /\ mtx_original = mtx_file

NextMtx == MtxLoad \/ MtxProcess \/ MtxFilterIndices \/ MtxFilterCallable \/ MtxWrite

SpecMtx == InitMtx /\ [][NextMtx]_vars

\* ------------------------------------------------------- one Tsv object
\* Lines of an annotation file.
MaxTsvRows == 3

\* The lines of an annotation file of one column: a column name or an
\* identifier each. pd.read_csv cannot load a file without lines.
TsvLines == {<<<<"k", "e", "y">>>>, <<<<"A">>>>, <<<<"B">>>>}

TsvFiles == UNION {[1..n -> TsvLines] : n \in 1..MaxTsvRows}

\* Mutant: every size above the expected one is taken as header plus data.
detect_header_lenient(size, expected_size) ==
    IF size = expected_size
    THEN "False"
    ELSE IF size >= expected_size + 1
         THEN "True"
         ELSE "RuntimeError"

\* Tsv.detect_header: what it returns, or raises, for the number of rows.
detect_header(size, expected_size) ==
    IF size = expected_size
    THEN "False"
    ELSE IF size = expected_size + 1
         THEN "True"
         ELSE "RuntimeError"

\* self.header = self.data.iloc[0, :]; self.data = self.data.iloc[1:]
split_header(tsv) == [header |-> tsv.data[1], data |-> SubSeq(tsv.data, 2, Len(tsv.data))]

\* tsv.detect_header(expected_size), as preprocess calls it with a size of
\* the matrix
DetectHeader ==
    /\ tsv_call.op = "none"
    /\ tsv_obj /= NoTsv
    /\ \E expected_size \in 0..(MaxTsvRows + 1) :
        LET outcome == detect_header(Len(tsv_obj.data), expected_size)
            call == [NoTsvCall EXCEPT !.op = "detect_header",
                                      !.expected_size = expected_size,
                                      !.found = tsv_obj]
        IN IF outcome = "RuntimeError"
           THEN /\ tsv_call' = [call EXCEPT !.raised = outcome]
                /\ UNCHANGED tsv_obj
           ELSE /\ tsv_call' = [call EXCEPT !.returned = outcome]
                /\ tsv_obj' = IF outcome = "True" THEN split_header(tsv_obj) ELSE tsv_obj
    /\ UNCHANGED tsv_file
    /\ UNCHANGED notTsvVars

\* preprocess: if tsv.detect_header(...) | tsv.process(): tsv.write()
TsvWrite ==
    /\ tsv_call.op = "detect_header"
    /\ tsv_call.returned = "True"
    /\ tsv_file' = tsv_write(tsv_obj)
    /\ tsv_call' = [tsv_call EXCEPT !.op = "write"]
    /\ UNCHANGED tsv_obj
    /\ UNCHANGED notTsvVars

InitTsv ==
    /\ PipeIdle
    /\ blacklist = {}
    /\ target_uuids = NoTargets
    /\ FilterIdle
    /\ FetchIdle
    /\ PrepIdle
    /\ MtxIdle
    /\ FsIdle
    /\ tsv_file \in TsvFiles
    /\ tsv_obj = Tsv(tsv_file)
    /\ tsv_call = NoTsvCall

NextTsv == DetectHeader \/ TsvWrite

SpecTsv == InitTsv /\ [][NextTsv]_vars

\* ------------------------------------ unzip, preprocess, separate, rezip
\* MatrixPreparer.unzip(remove_archive)
Unzip ==
    /\ fs_call.op \in {"none", "__enter__", "chdir", "rezip"}
    /\ fs_call.raised = ""
    /\ fs_info.zip_path /= "None"
    /\ \E remove_archive \in BOOLEAN :
        LET call == [FsCall("unzip") EXCEPT !.flag = remove_archive]
            archive == zips[fs_info.zip_path]
            target == cwd \o fs_info.extract_path
            ds == extractall_dirs(tree_dirs, archive, target)
            walk == map_find_matrix(extractall_files(files, archive, target),
                                    traverse_dirs(ds, target))
        IN IF cwd /= WorkDir \/ ~archive.exists
           THEN /\ fs_call' = [call EXCEPT !.raised = "FileNotFoundError"]
                /\ UNCHANGED <<files, tree_dirs, zips>>
           ELSE /\ tree_dirs' = ds
                /\ zips' = IF remove_archive
                           THEN [zips EXCEPT ![fs_info.zip_path] = NoArchive]
                           ELSE zips
                /\ IF target \notin ds
                   THEN /\ fs_call' = [call EXCEPT !.raised = "FileNotFoundError"]
                        /\ UNCHANGED files
                   ELSE /\ files' = walk.files
                        /\ fs_call' =
                              [call EXCEPT
                                  !.raised = walk.raised,
                                  !.returned =
                                      [i \in 1..Len(walk.returned) |->
                                          MatrixInfo("None", relative(walk.returned[i], cwd))]]
    /\ fs_prev' = fs_call
    /\ UNCHANGED <<cwd, dc, fs_info>>
    /\ UNCHANGED notFsVars

\* MatrixPreparer(info) for a descriptor the last call returned
NewPreparer ==
    /\ fs_call.op = "unzip"
    /\ fs_prev.op /= "rezip"
    /\ \E i \in 1..Len(fs_call.returned) :
        /\ fs_info' = fs_call.returned[i]
        /\ fs_info' /= fs_info
    /\ fs_call' = FsCall("MatrixPreparer")
    /\ fs_prev' = fs_call
    /\ UNCHANGED <<files, tree_dirs, zips, cwd, dc>>
    /\ UNCHANGED notFsVars

\* The files of extract_path that preprocess rewrites, in its order; each
\* is rewritten or left as it is, as its contents require.
RECURSIVE rewrite_each(_, _, _)
rewrite_each(fs, dir, names) ==
    IF names = <<>>
    THEN fs
    ELSE rewrite_each(write(fs, dir, Head(names),
                            [read(fs, dir, Head(names)) EXCEPT !.rewritten = TRUE]),
                      dir, Tail(names))

\* The first of the names that is no file of dir, 0 when all are.
first_missing(fs, dir, names) ==
    IF \A k \in 1..Len(names) : path_exists(fs, dir, names[k])
    THEN 0
    ELSE CHOOSE k \in 1..Len(names) :
            /\ ~path_exists(fs, dir, names[k])
            /\ \A j \in 1..(k - 1) : path_exists(fs, dir, names[j])

\* MatrixPreparer.preprocess(): inside DirectoryChange(extract_path) the
\* three files are loaded one after the other; a missing one raises
\* FileNotFoundError, detect_header of an annotation file may raise
\* RuntimeError, and the files handled before stay rewritten.
Preprocess ==
    /\ fs_call.op \in {"unzip", "MatrixPreparer"}
    /\ fs_prev.op /= "rezip"
    /\ fs_info.extract_path /= <<>>
    /\ LET call == FsCall("preprocess")
           target == cwd \o fs_info.extract_path
           stop == first_missing(files, target, CanonicalFiles)
           last == IF stop = 0 THEN 3 ELSE stop - 1
       IN IF target \notin tree_dirs
          THEN /\ fs_call' = [call EXCEPT !.raised = "FileNotFoundError"]
               /\ cwd' = cwd
               /\ UNCHANGED files
          ELSE /\ cwd' = directory_change_exit(cwd, target)
               /\ \E done \in 0..last :
                    /\ \E rewritten \in {done - 1, done} \cap (0..done) :
                          files' = rewrite_each(files, target,
                                                SubSeq(CanonicalFiles, 1, rewritten))
                    /\ fs_call' =
                          [call EXCEPT
                              !.raised = IF done = 3
                                         THEN ""
                                         ELSE IF done = last /\ stop /= 0
                                              THEN "FileNotFoundError"
                                              ELSE "RuntimeError"]
                    /\ (done < last => done >= 1)
    /\ fs_prev' = fs_call
    /\ UNCHANGED <<tree_dirs, zips, dc, fs_info>>
    /\ UNCHANGED notFsVars

\* A symbolic link to a file of the parent directory.
symlink_to(filename) == [compressed |-> FALSE, of |-> <<<<"..">>, filename>>, rewritten |-> TRUE]

\* One round of the loop of separate() in the directory tree: lca_dir.mkdir(),
\* mtx.write(lca_dir / 'matrix.mtx') and the two links.
RECURSIVE make_lca_dirs(_, _, _)
make_lca_dirs(fs, target, lcas) ==
    IF lcas = {}
    THEN fs
    ELSE LET lca == CHOOSE l \in lcas : TRUE
             dir == target \o <<lca>>
         IN make_lca_dirs(
                write(write(write(fs, dir, "matrix.mtx",
                                  [read(fs, target, "matrix.mtx") EXCEPT !.rewritten = TRUE]),
                            dir, "genes.tsv", symlink_to("genes.tsv")),
                      dir, "barcodes.tsv", symlink_to("barcodes.tsv")),
                target, lcas \ {lca})

\* MatrixPreparer.separate() in the directory tree; what the label column
\* holds decides the outcome.
SeparateDirs ==
    /\ fs_call.op = "preprocess"
    /\ fs_call.raised = ""
    /\ fs_info.extract_path /= <<>>
    /\ LET call == FsCall("separate")
           target == cwd \o fs_info.extract_path
           rewritten == write(files, target, "barcodes.tsv",
                              [read(files, target, "barcodes.tsv") EXCEPT !.rewritten = TRUE])
       IN IF target \notin tree_dirs \/ ~path_exists(files, target, "barcodes.tsv")
          THEN /\ fs_call' = [call EXCEPT !.raised = "FileNotFoundError"]
               /\ cwd' = IF target \notin tree_dirs THEN cwd ELSE directory_change_exit(cwd, target)
               /\ UNCHANGED <<files, tree_dirs>>
          ELSE /\ cwd' = directory_change_exit(cwd, target)
               /\ \E outcome \in {"no labels", "ValueError", "RuntimeError", "one", "many"} :
                    CASE outcome = "no labels" ->
                            /\ fs_call' = [call EXCEPT !.returned = <<fs_info>>]
                            /\ UNCHANGED <<files, tree_dirs>>
                      [] outcome \in {"ValueError", "RuntimeError"} ->
                            /\ fs_call' = [call EXCEPT !.raised = outcome]
                            /\ files' = rewritten
                            /\ UNCHANGED tree_dirs
                      [] outcome = "one" ->
                            /\ fs_call' = [call EXCEPT !.returned = <<fs_info>>]
                            /\ files' = rewritten
                            /\ UNCHANGED tree_dirs
                      [] outcome = "many" ->
                            IF \/ \E lca \in Codes : target \o <<lca>> \in tree_dirs
                               \/ ~path_exists(files, target, "matrix.mtx")
                            THEN /\ fs_call' =
                                      [call EXCEPT
                                          !.raised =
                                              IF \E lca \in Codes : target \o <<lca>> \in tree_dirs
                                              THEN "FileExistsError"
                                              ELSE "FileNotFoundError"]
                                 /\ files' = rewritten
                                 /\ tree_dirs' = IF \E lca \in Codes : target \o <<lca>> \in tree_dirs
                                            THEN tree_dirs
                                            ELSE tree_dirs \cup {target \o <<CHOOSE l \in Codes : TRUE>>}
                            ELSE /\ files' = make_lca_dirs(rewritten, target, Codes)
                                 /\ tree_dirs' = tree_dirs \cup {target \o <<lca>> : lca \in Codes}
                                 /\ \E order \in Arrangements(Codes, Cardinality(Codes)) :
                                       fs_call' =
                                          [call EXCEPT
                                              !.returned =
                                                  [i \in 1..Len(order) |->
                                                      MatrixInfo("None",
                                                                 fs_info.extract_path
                                                                     \o <<order[i]>>)]]
    /\ fs_prev' = fs_call
    /\ UNCHANGED <<zips, dc, fs_info>>
    /\ UNCHANGED notFsVars

\* The loop of rezip over the first n canonical files: the gzip form is
\* written beside the file, the file is removed.
RECURSIVE gzip_each(_, _, _)
gzip_each(fs, dir, n) ==
    IF n = 0
    THEN fs
    ELSE LET before_n == gzip_each(fs, dir, n - 1)
             filename == CanonicalFiles[n]
         IN remove(write(before_n, dir, gz(filename), compress(read(before_n, dir, filename))),
                   dir, filename)

\* Mutant: the archive takes the files as they are, under their own names.
zipped_as_they_are(fs, dir, n) ==
    [exists |-> TRUE,
     members |-> {[dir |-> <<>>, name |-> CanonicalFiles[k],
                   data |-> read(fs, dir, CanonicalFiles[k])] : k \in 1..n}]

\* zipfile.write(gzfilename) for the first n canonical files
zipped(fs, dir, n) ==
    [exists |-> TRUE,
     members |-> {[dir |-> <<>>, name |-> gz(CanonicalFiles[k]),
                   data |-> compress(read(fs, dir, CanonicalFiles[k]))] : k \in 1..n}]

\* shutil.rmtree(path)
rmtree_files(fs, path) == {f \in fs : ~under(f.dir, path)}

rmtree_dirs(ds, path) == {d \in ds : ~under(d, path)}

\* MatrixPreparer.rezip(zip_path, remove_dir)
Rezip ==
    /\ \/ fs_call.op = "preprocess" /\ fs_call.raised = ""
       \/ fs_call.op \in {"unzip", "MatrixPreparer"} /\ fs_prev.op /= "rezip"
    /\ fs_info.extract_path /= <<>>
    /\ \E zip_path \in ZipPaths \cup {"None"}, remove_dir \in BOOLEAN :
        /\ zip_path /= "None" \/ fs_info.zip_path /= "None"
        /\ LET call == [FsCall("rezip") EXCEPT !.zip_path = zip_path, !.flag = remove_dir]
               path == IF zip_path /= "None" THEN zip_path ELSE fs_info.zip_path
               target == cwd \o fs_info.extract_path
               stop == first_missing(files, target, CanonicalFiles)
               n == IF stop = 0 THEN 3 ELSE stop - 1
           IN /\ fs_info' = [fs_info EXCEPT !.zip_path = path]
              /\ IF cwd /= WorkDir
                 THEN /\ fs_call' = [call EXCEPT !.raised = "FileNotFoundError"]
                      /\ UNCHANGED <<files, tree_dirs, zips, cwd>>
                 ELSE IF target \notin tree_dirs
                 THEN /\ fs_call' = [call EXCEPT !.raised = "FileNotFoundError"]
                      /\ zips' = [zips EXCEPT ![path] = zipped(files, target, 0)]
                      /\ UNCHANGED <<files, tree_dirs, cwd>>
                 ELSE /\ cwd' = directory_change_exit(cwd, target)
                      /\ zips' = [zips EXCEPT ![path] = zipped(files, target, n)]
                      /\ IF stop /= 0
                         THEN /\ fs_call' = [call EXCEPT !.raised = "FileNotFoundError"]
                              /\ files' = gzip_each(files, target, n)
                              /\ UNCHANGED tree_dirs
                         ELSE /\ fs_call' = call
                              /\ files' = IF remove_dir
                                          THEN rmtree_files(gzip_each(files, target, n),
                                                            cwd' \o fs_info.extract_path)
                                          ELSE gzip_each(files, target, n)
                              /\ tree_dirs' = IF remove_dir
                                         THEN rmtree_dirs(tree_dirs, cwd' \o fs_info.extract_path)
                                         ELSE tree_dirs
    /\ fs_prev' = fs_call
    /\ UNCHANGED dc
    /\ UNCHANGED notFsVars

\* The caller's with DirectoryChange(new_dir): __enter__
DcEnter ==
    /\ fs_call.op = "none"
    /\ \E new_dir \in {WorkDir, OtherDir, MissingDir} :
        IF new_dir \in tree_dirs
        THEN /\ dc' = Append(dc, [old_dir |-> cwd, entered_in |-> cwd])
             /\ cwd' = new_dir
             /\ fs_call' = FsCall("__enter__")
        ELSE /\ fs_call' = [FsCall("__enter__") EXCEPT !.raised = "FileNotFoundError"]
             /\ UNCHANGED <<dc, cwd>>
    /\ fs_prev' = fs_call
    /\ UNCHANGED <<files, tree_dirs, zips, fs_info>>
    /\ UNCHANGED notFsVars

\* os.chdir in the body of the caller's with statement
DcChdir ==
    /\ fs_call.op = "__enter__"
    /\ fs_call.raised = ""
    /\ dc /= <<>>
    /\ \E dir \in {WorkDir, OtherDir} :
        /\ dir /= cwd
        /\ cwd' = dir
    /\ fs_call' = FsCall("chdir")
    /\ fs_prev' = fs_call
    /\ UNCHANGED <<files, tree_dirs, zips, dc, fs_info>>
    /\ UNCHANGED notFsVars

\* The body is left, normally or by an exception: __exit__
DcExit ==
    /\ dc /= <<>>
    /\ \E raised \in {"", "Exception"} :
        fs_call' = [FsCall("__exit__") EXCEPT
                       !.raised = raised,
                       !.cwd = dc[Len(dc)].entered_in]
    /\ cwd' = directory_change_exit(dc[Len(dc)].old_dir, cwd)
    /\ dc' = SubSeq(dc, 1, Len(dc) - 1)
    /\ fs_prev' = fs_call
    /\ UNCHANGED <<files, tree_dirs, zips, fs_info>>
    /\ UNCHANGED notFsVars

InitFs ==
    /\ PipeIdle
    /\ blacklist = {}
    /\ target_uuids = NoTargets
    /\ FilterIdle
    /\ FetchIdle
    /\ PrepIdle
    /\ MtxIdle
    /\ TsvIdle
    /\ files = {}
    /\ tree_dirs = {<<>>, WorkDir, OtherDir}
    /\ \E archive \in Archives :
          zips = [z \in ZipPaths |-> IF z = "matrices.zip" THEN archive ELSE NoArchive]
    /\ cwd \in {WorkDir, OtherDir}
    /\ dc = <<>>
    /\ fs_info = MatrixInfo("matrices.zip", ExtractPath)
    /\ fs_call = NoFsCall
    /\ fs_prev = NoFsCall

NextFs ==
    \/ Unzip
    \/ NewPreparer
    \/ Preprocess
    \/ SeparateDirs
    \/ Rezip
    \/ DcEnter
    \/ DcChdir
    \/ DcExit

SpecFs == InitFs /\ [][NextFs]_vars

\* ------------------------------------------------------------------ claims
nskipped == Len(SelectSeq(fetch_log, IsSkip))

\* C1: a failure of one matrix (in its fetch, its preparation or its
\* statistics) never prevents later matrices from being attempted: when main()
\* has ended after attempting a matrix, every admitted identifier was fetched.
C1_FailureNeverStopsRun ==
    (pc \in {"done", "crashed"} /\ fetch_log /= <<>>) =>
        \A id \in admitted : id \in Range(fetched)

\* C2: the identifiers are fetched in order of descending size estimate, those
\* without an estimate after all those with one, equal estimates in
\* enumeration order.
C2_DescendingSizeOrder ==
    \A i, j \in 1..Len(fetch_log) :
        i < j =>
            LET a == get_matrix_size(fetched[i])
                b == get_matrix_size(fetched[j])
            IN /\ a = None => b = None
               /\ (a /= None /\ b /= None) => a >= b
               /\ a = b => fetched[i] < fetched[j]

\* C3: when the iteration is over, obtain_matrix was called exactly once for
\* every admitted identifier, with or without a size estimate, never for a
\* skipped one, and one MatrixSource was yielded per fetch that did not skip.
C3_EachAdmittedFetchedOnce ==
    (gen_state = "finished" /\ uncaught /= "Exception") =>
        /\ \A id \in admitted :
              Cardinality({i \in 1..Len(fetch_log) : fetched[i] = id}) = 1
        /\ Range(fetched) \subseteq admitted
        /\ Len(yielded) = Len(fetch_log) - nskipped

\* C4 as claimed: a caller holding k items, with no request under way, has
\* caused exactly k fetch calls.
C4_ExactlyKFetches ==
    pc \in {"loop", "prepare", "stats"} => Len(fetch_log) = Len(yielded)

\* C4 as amended: obtain_matrix is called only to serve a request of the
\* caller, on the admitted identifiers in sorted order; a caller holding k
\* items, with no request under way, has made k requests and caused k fetch
\* calls plus one per fetch that raised SkipMatrix, none for the identifiers
\* after those.
C4_LazyFetch ==
    /\ fetched = SubSeq(sorted_entity_ids, 1, Len(fetch_log))
    /\ Len(yielded) <= requests
    /\ pc \in {"loop", "prepare", "stats"} =>
          /\ Len(yielded) = requests
          /\ Len(fetch_log) = requests + nskipped

C4_Witness ==
    /\ pc = "prepare"
    /\ nskipped >= 1
    /\ Len(yielded) = 1
    /\ Len(fetch_log) < Len(sorted_entity_ids)

\* C5: when obtain_matrix raises SkipMatrix nothing is yielded for that
\* identifier, the exception does not reach the caller, and the generator goes
\* on, inside the same request, to the next admitted identifier (or ends with
\* StopIteration when there is none).
C5_FetchSkipContinues ==
    \A i \in 1..Len(fetch_log) :
        IsSkip(fetch_log[i]) =>
            /\ fetch_log[i].id \notin Range(yielded)
            /\ uncaught /= "SkipMatrix"
            /\ i = Len(fetch_log) =>
                  \/ pc = "next" /\ gen_state = "running" /\ gen_idx = i + 1
                  \/ pc = "done" /\ i = Len(sorted_entity_ids)

C5_Witness ==
    \E i \in 1..Len(fetch_log) :
        /\ IsSkip(fetch_log[i])
        /\ i < Len(fetch_log)
        /\ IsOk(fetch_log[i + 1])

\* C6: filter_entity_id of every concrete provider raises SkipMatrix for a
\* blacklisted identifier and for one outside a configured target set; with
\* no target set and the identifier not blacklisted, base filtering admits it.
C6_BaseFilteringEveryProvider ==
    last_filter.entity_id /= 0 =>
        /\ last_filter.entity_id \in blacklist =>
              last_filter.result.raised = "SkipMatrix"
        /\ (target_uuids.configured /\ last_filter.entity_id \notin target_uuids.uuids) =>
              last_filter.result.raised = "SkipMatrix"
        /\ (~target_uuids.configured /\ last_filter.entity_id \notin blacklist) =>
              filter_entity_id(last_filter.entity_id) = Returns

\* The LastModified of the target figures of a uuid in the figures bucket.
TargetFigureTimes(uuid) ==
    {o.LastModified : o \in {x \in figures : x.uuid = uuid /\ x.figure \in target_images}}

\* C7: for an identifier that passes base filtering, the filter of an
\* idempotent provider raises SkipMatrix exactly when the override is off, the
\* identifier has a target figure, and the matrix modification time is less
\* than or equal to the oldest LastModified of its target figures.
C7_IdempotentSkipsUpToDate ==
    (/\ last_filter.entity_id /= 0
     /\ source \in {"canned", "local"}
     /\ last_filter.exists
     /\ last_filter.species_found
     /\ filter_entity_id(last_filter.entity_id) = Returns) =>
        (last_filter.result.raised = "SkipMatrix"
            <=> /\ ~ignore_mtime
                /\ \E oldest \in TargetFigureTimes(last_filter.entity_id) :
                      /\ \A t \in TargetFigureTimes(last_filter.entity_id) : oldest <= t
                      /\ last_filter.matrix_mtime <= oldest)

C7_Witness ==
    /\ source = "canned"
    /\ last_filter.entity_id /= 0
    /\ Cardinality(TargetFigureTimes(last_filter.entity_id)) = 2
    /\ ~ignore_mtime
    /\ last_filter.result = SkipMatrix("up to date")

\* The labels the remote metadata declares for the project of the last call.
DeclaredLabels == Range(projects[last_filter.entity_id].project_lcas)

\* C10: the filter of the remote-service provider raises SkipMatrix, and
\* nothing else, for a project one of whose declared labels translate_lca
\* cannot classify, and admits a project whose labels are all classifiable,
\* one without a metadata entry included.
C10_UnclassifiableLabelSkips ==
    (source = "fresh" /\ last_filter.entity_id /= 0) =>
        /\ last_filter.result.raised \in {"", "SkipMatrix"}
        /\ (\E l \in DeclaredLabels : translate_lca(l) = "ValueError")
              => last_filter.result.raised = "SkipMatrix"
        /\ (\A l \in DeclaredLabels : translate_lca(l) /= "ValueError")
              => last_filter.result = Returns

C10_Witness ==
    /\ source = "fresh"
    /\ last_filter.entity_id /= 0
    /\ projects[last_filter.entity_id].present
    /\ Len(projects[last_filter.entity_id].project_lcas) = 2
    /\ translate_lca(projects[last_filter.entity_id].project_lcas[1]) = "10X"
    /\ translate_lca(projects[last_filter.entity_id].project_lcas[2]) = "ValueError"
    /\ last_filter.result = SkipMatrix("bad azul lca")

\* C11: the filter of the local provider admits an identifier only if its
\* archive exists and its species is found; for a missing archive it raises
\* SkipMatrix without any modification-time lookup; a failure to find the
\* species is raised as SkipMatrix, and the filter raises nothing else.
C11_LocalNeedsArchiveAndSpecies ==
    (source = "local" /\ last_filter.entity_id /= 0) =>
        /\ last_filter.result.raised \in {"", "SkipMatrix"}
        /\ last_filter.result = Returns =>
              (last_filter.exists /\ last_filter.species_found)
        /\ ~last_filter.exists =>
              /\ last_filter.result.raised = "SkipMatrix"
              /\ last_filter.mtime_lookups = 0
        /\ (last_filter.exists /\ ~last_filter.species_found) =>
              last_filter.result.raised = "SkipMatrix"

\* A missing archive of an identifier that base filtering admits and whose
\* figures would otherwise be compared by modification time.
C11_Witness ==
    /\ source = "local"
    /\ last_filter.entity_id /= 0
    /\ ~last_filter.exists
    /\ ~ignore_mtime
    /\ figure_mtimes[last_filter.entity_id] /= None
    /\ filter_entity_id(last_filter.entity_id) = Returns
    /\ last_filter.result = SkipMatrix("does not exist")
    /\ last_filter.mtime_lookups = 0

ninprogress == Len(SelectSeq(status_log, LAMBDA x : x = "In Progress"))

LastStatus == status_log[Len(status_log)]

\* C8: a remote fetch posts exactly one generation request, downloads the
\* archive only after a status check returned 'Complete', and sleeps once, for
\* 30 seconds, after every 'In Progress' before the next status check.
C8_RequestPollDownload ==
    /\ posts <= 1
    /\ (status_log /= <<>> \/ fpc = "poll") => posts = 1
    /\ downloads <= 1
    /\ downloads = 1 => (status_log /= <<>> /\ LastStatus = "Complete")
    /\ fpc = "poll" => sleeps = Len(status_log)
    /\ fpc \in {"sleep", "complete", "returned"} => sleeps = Len(status_log) - 1
    /\ sleeps <= ninprogress
    /\ slept_seconds = 30 * sleeps
    /\ fetch_result = "MatrixInfo" => downloads = 1

C8_Witness ==
    /\ fetch_result = "MatrixInfo"
    /\ ninprogress = 2
    /\ slept_seconds = 60
    /\ posts = 1

\* C9: a status other than 'Complete' and 'In Progress' ends the fetch with a
\* RuntimeError: no later status check, no download, no MatrixInfo, and the
\* error is not a skip signal.
C9_UnexpectedStatusFatal ==
    /\ \A i \in 1..Len(status_log) : i < Len(status_log) => status_log[i] = "In Progress"
    /\ (status_log /= <<>> /\ LastStatus \notin {"Complete", "In Progress"}) =>
          /\ fpc = "raised"
          /\ fetch_result = "RuntimeError"
          /\ downloads = 0

C9_Witness ==
    /\ fpc = "raised"
    /\ fetch_result = "RuntimeError"
    /\ Len(status_log) = 3
    /\ LastStatus = "Expired"

\* The data rows of a matrix file as Mtx loads them: (gene_idx, barcode_idx,
\* count) per row, in the order of the file.
DataRows(file) == [i \in 1..Len(file.lines) |-> Mtx(file).data[i].cols]

\* The label the annotation file gave, before the call, to the barcode line a
\* data row points to.
LabelBefore(row) == before.barcodes_tsv[row[2]][2]

RECURSIVE SumNnz(_)
SumNnz(dirs) ==
    IF dirs = {}
    THEN 0
    ELSE LET d == CHOOSE x \in dirs : TRUE
         IN d.matrix_mtx.sizes[3] + SumNnz(dirs \ {d})

\* C12: when separate() returns for a label column of several distinct
\* classified labels, there is one subdirectory per label, its matrix file
\* holds exactly the original data rows whose barcode line carries a label of
\* that class, every original row is in exactly one of the files, and the
\* declared nonzero counts of the files sum to the original one.
C12_LabelFilesPartitionRows ==
    (/\ prep_call.op = "separate"
     /\ prep_call.raised = ""
     /\ Cardinality(prep_call.found_lcas) >= 2) =>
        /\ {d.name : d \in lca_dirs} = prep_call.found_lcas
        /\ \A d \in lca_dirs :
              Range(DataRows(d.matrix_mtx)) =
                 {row \in Range(DataRows(before.matrix_mtx)) :
                     translate_lca(LabelBefore(row)) = d.name}
        /\ \A row \in Range(DataRows(before.matrix_mtx)) :
              Cardinality({d \in lca_dirs : row \in Range(DataRows(d.matrix_mtx))}) = 1
        /\ SumNnz(lca_dirs) = before.matrix_mtx.sizes[3]

\* What C13 says of the list separate() returned: one label per descriptor;
\* the original descriptor alone and in place, or one descriptor per label
\* found, each on a path of its own that is not the parent's.
OneLabelEach ==
    /\ \A i \in 1..Len(prep_call.returned) :
          Cardinality(prep_call.returned[i].lib_con_approaches) = 1
    /\ \/ /\ prep_call.returned = <<info>>
          /\ info.extract_path = before.info.extract_path
          /\ lca_dirs = {}
       \/ /\ Len(prep_call.returned) = Cardinality(info.lib_con_approaches)
          /\ {prep_call.returned[i].lib_con_approaches :
                 i \in 1..Len(prep_call.returned)} = {{l} : l \in info.lib_con_approaches}
          /\ \A i, j \in 1..Len(prep_call.returned) :
                i /= j => prep_call.returned[i].extract_path
                             /= prep_call.returned[j].extract_path
          /\ \A i \in 1..Len(prep_call.returned) :
                prep_call.returned[i].extract_path /= info.extract_path

\* C13 as stated: after separate() returns, every MatrixSource of the result
\* carries exactly one known label, in place or one per label on its own path.
C13_OneLabelPerResult ==
    (prep_call.op = "separate" /\ prep_call.raised = "") => OneLabelEach

\* C13: after separate() returns for an annotation file with a label column,
\* every MatrixSource of the result carries exactly one known label, in place
\* or one per label on its own path; without a label column the result is the
\* original descriptor with the known labels it had.
C13_OneLabelPerResultWithColumn ==
    (prep_call.op = "separate" /\ prep_call.raised = "") =>
        IF has_column_1(before.barcodes_tsv)
        THEN OneLabelEach
        ELSE prep_call.returned = <<before.info>>

C13_Witness ==
    /\ prep_call.op = "separate"
    /\ prep_call.raised = ""
    /\ Len(prep_call.returned) = 2
    /\ prep_call.returned[1].extract_path = <<"matrix", "10X">>
    /\ prep_call.returned[2].extract_path = <<"matrix", "SS2">>
    /\ before.info.lib_con_approaches = {"SS2", "10X"}

\* The classes of the labels the annotation file held before the call.
FoundBefore ==
    {translate_lca(before.barcodes_tsv[i][2]) : i \in 1..Len(before.barcodes_tsv)}

\* C14: separate() on a label column of classified labels: with an empty
\* known set, or a found set that is the known set or a proper subset of it,
\* it returns and the found set is the known set afterwards; with a found set
\* that is no subset of a non-empty known set it raises RuntimeError, returns
\* nothing and leaves the known set as it was.
C14_ReconcileFoundWithKnown ==
    (/\ prep_call.op = "separate"
     /\ has_column_1(before.barcodes_tsv)
     /\ "ValueError" \notin FoundBefore) =>
        IF \/ before.info.lib_con_approaches = {}
           \/ FoundBefore \subseteq before.info.lib_con_approaches
        THEN /\ prep_call.raised = ""
             /\ prep_call.returned /= <<>>
             /\ info.lib_con_approaches = FoundBefore
        ELSE /\ prep_call.raised = "RuntimeError"
             /\ prep_call.returned = <<>>
             /\ info.lib_con_approaches = before.info.lib_con_approaches

\* A found set that is a proper subset of the known set replaces it.
C14_Witness ==
    /\ prep_call.op = "separate"
    /\ prep_call.raised = ""
    /\ before.info.lib_con_approaches = {"SS2", "10X"}
    /\ has_column_1(before.barcodes_tsv)
    /\ FoundBefore = {"10X"}
    /\ info.lib_con_approaches = {"10X"}
    /\ prep_call.returned = <<info>>

\* What C15 says separate() does for a homogeneous label column: the original
\* descriptor is returned alone, on its path, with the one label as its known
\* set, and nothing is created under extract_path.
ReturnedInPlace ==
    /\ prep_call.raised = ""
    /\ prep_call.returned = <<info>>
    /\ info.extract_path = before.info.extract_path
    /\ info.lib_con_approaches = FoundBefore
    /\ lca_dirs = {}
    /\ "mkdir" \notin Range(prep_call.ops)
    /\ "symlink" \notin Range(prep_call.ops)

\* The label column holds labels of exactly one class, and no other label.
OneClassBefore ==
    /\ has_column_1(before.barcodes_tsv)
    /\ Cardinality(FoundBefore) = 1
    /\ "ValueError" \notin FoundBefore

\* C15 as stated: whenever the label column holds exactly one distinct
\* classified label, separate() returns the original descriptor in place.
C15_HomogeneousInPlace ==
    (prep_call.op = "separate" /\ OneClassBefore) => ReturnedInPlace

\* C15: when the label column holds exactly one distinct classified label and
\* the known set is empty or contains that label, separate() returns the
\* original descriptor alone, its path unchanged and its known set that one
\* label, and creates no subdirectory or link; with a non-empty known set
\* that lacks the label it raises RuntimeError.
C15_HomogeneousInPlaceIfConsistent ==
    (prep_call.op = "separate" /\ OneClassBefore) =>
        IF \/ before.info.lib_con_approaches = {}
           \/ FoundBefore \subseteq before.info.lib_con_approaches
        THEN ReturnedInPlace
        ELSE prep_call.raised = "RuntimeError" /\ lca_dirs = {}

\* Two differently spelled labels of one class, no known label.
C15_Witness ==
    /\ prep_call.op = "separate"
    /\ has_column_1(before.barcodes_tsv)
    /\ before.barcodes_tsv[1][2] = TenXv2
    /\ before.barcodes_tsv[2][2] = LowerTenX
    /\ before.info.lib_con_approaches = {}
    /\ info.lib_con_approaches = {"10X"}
    /\ prep_call.returned = <<info>>
    /\ lca_dirs = {}

\* Every line of the annotation file the call found is one cell, the
\* barcode identifier.
NoLabelColumnBefore ==
    \A i \in 1..Len(before.barcodes_tsv) : Len(before.barcodes_tsv[i]) = 1

\* C16: when barcodes.tsv has no label column, separate() returns the
\* original descriptor alone and changes nothing: the annotation file is read
\* only, the matrix file, the directory and the known labels are as before.
C16_NoLabelColumnNoOp ==
    (prep_call.op = "separate" /\ NoLabelColumnBefore) =>
        /\ prep_call.raised = ""
        /\ prep_call.returned = <<before.info>>
        /\ info = before.info
        /\ barcodes_tsv = before.barcodes_tsv
        /\ matrix_mtx = before.matrix_mtx
        /\ lca_dirs = {}
        /\ Range(prep_call.ops) \subseteq {"read barcodes.tsv"}

\* A descriptor with two known labels comes back as it is.
C16_Witness ==
    /\ prep_call.op = "separate"
    /\ NoLabelColumnBefore
    /\ prep_call.returned = <<info>>
    /\ info.lib_con_approaches = {"SS2", "10X"}
    /\ prep_call.ops = <<"read barcodes.tsv">>

\* The labels of the label column the call found.
LabelsBefore == {before.barcodes_tsv[i][2] : i \in 1..Len(before.barcodes_tsv)}

\* The class C17 gives a label: 'Smart-seq2' itself, a label whose first
\* three characters are '10X' or '10x', or none.
ExpectedCode(l) ==
    IF l = <<"S", "m", "a", "r", "t", "-", "s", "e", "q", "2">>
    THEN "SS2"
    ELSE IF Len(l) >= 3 /\ l[1] = "1" /\ l[2] = "0" /\ l[3] \in {"x", "X"}
         THEN "10X"
         ELSE "none"

\* C17: the classification separate() applies to the label column is closed:
\* the found set is the set of the classes of the labels, 'SS2' for
\* 'Smart-seq2' itself and '10X' for a label that starts with '10X' in upper
\* case, and a column with any other label raises ValueError, no class found.
C17_ClosedClassification ==
    (prep_call.op = "separate" /\ ~NoLabelColumnBefore) =>
        IF \E l \in LabelsBefore : ExpectedCode(l) = "none"
        THEN /\ prep_call.raised = "ValueError"
             /\ prep_call.found_lcas = {}
             /\ info = before.info
        ELSE /\ prep_call.raised /= "ValueError"
             /\ prep_call.found_lcas = {ExpectedCode(l) : l \in LabelsBefore}

\* 'Smart-seq2' on one line, the near-miss 'Smart-seq' on the other.
C17_Witness ==
    /\ prep_call.op = "separate"
    /\ ~NoLabelColumnBefore
    /\ before.barcodes_tsv[1][2] = SmartSeq2
    /\ before.barcodes_tsv[2][2] = SmartSeq
    /\ prep_call.raised = "ValueError"

\* C18: prune(keep_frac) with keep_frac <= 0 or keep_frac > 1 raises
\* ValueError, and the matrix file is neither read nor written.
C18_InvalidFractionRaises ==
    (/\ prep_call.op = "prune"
     /\ (prep_call.keep_frac.num <= 0 \/ prep_call.keep_frac.num > prep_call.keep_frac.den)) =>
        /\ prep_call.raised = "ValueError"
        /\ prep_call.ops = <<>>
        /\ matrix_mtx = before.matrix_mtx

\* keep_frac = 0 on a matrix of three rows.
C18_Witness ==
    /\ prep_call.op = "prune"
    /\ prep_call.keep_frac.num = 0
    /\ prep_call.raised = "ValueError"
    /\ Len(matrix_mtx.lines) = 3

\* No data row of the file is there twice.
NoRowTwice(file) ==
    \A i, j \in 1..Len(file.lines) : i /= j => DataRows(file)[i] /= DataRows(file)[j]

\* The distance between two naturals.
Dist(a, b) == IF a >= b THEN a - b ELSE b - a

\* C19 as stated: for keep_frac in (0, 1], the rows prune leaves are a strict
\* subset of the original rows, none twice, and their number is within 1 of
\* round(keep_frac * original number).
C19_PruneStrictSubset ==
    (/\ prep_call.op = "prune"
     /\ 0 < prep_call.keep_frac.num
     /\ prep_call.keep_frac.num <= prep_call.keep_frac.den) =>
        /\ prep_call.raised = ""
        /\ Range(DataRows(matrix_mtx)) \subseteq Range(DataRows(before.matrix_mtx))
        /\ Range(DataRows(matrix_mtx)) /= Range(DataRows(before.matrix_mtx))
        /\ NoRowTwice(matrix_mtx)
        /\ Dist(Len(matrix_mtx.lines),
                round(prep_call.keep_frac.num * Len(before.matrix_mtx.lines),
                      prep_call.keep_frac.den)) <= 1

\* C19: for keep_frac in (0, 1], the rows prune leaves, as Mtx loads them, are
\* a subset of the original rows, none twice, their number is exactly
\* round(keep_frac * original number) and is the declared nonzero count; the
\* subset is strict exactly when that number is below the original one.
C19_PruneSubset ==
    (/\ prep_call.op = "prune"
     /\ 0 < prep_call.keep_frac.num
     /\ prep_call.keep_frac.num <= prep_call.keep_frac.den) =>
        /\ prep_call.raised = ""
        /\ Range(DataRows(matrix_mtx)) \subseteq Range(DataRows(before.matrix_mtx))
        /\ NoRowTwice(matrix_mtx)
        /\ Len(matrix_mtx.lines) =
              round(prep_call.keep_frac.num * Len(before.matrix_mtx.lines),
                    prep_call.keep_frac.den)
        /\ matrix_mtx.sizes[3] = Len(matrix_mtx.lines)
        /\ (Range(DataRows(matrix_mtx)) /= Range(DataRows(before.matrix_mtx))
               <=> Len(matrix_mtx.lines) < Len(before.matrix_mtx.lines))

\* Half of three rows: two are kept, the tie going to the even number.
C19_Witness ==
    /\ prep_call.op = "prune"
    /\ prep_call.keep_frac = [num |-> 2, den |-> 4]
    /\ Len(before.matrix_mtx.lines) = 3
    /\ Len(matrix_mtx.lines) = 2
    /\ prep_call.raised = ""

\* The position of a data row in the file the call found.
PositionBefore(row) ==
    CHOOSE i \in 1..Len(before.matrix_mtx.lines) : DataRows(before.matrix_mtx)[i] = row

\* The rows of the file follow one another as they did in the file the call
\* found.
InOrderOfBefore(file) ==
    \A i, j \in 1..Len(file.lines) :
        i < j => PositionBefore(DataRows(file)[i]) < PositionBefore(DataRows(file)[j])

\* C20: the rows Mtx.filter_entries retains keep their relative order, with
\* the row positions prune passes and with the predicate separate() passes.
C20_FilterKeepsOrder ==
    /\ (prep_call.op = "prune" /\ prep_call.raised = "") => InOrderOfBefore(matrix_mtx)
    /\ (prep_call.op = "separate" /\ prep_call.raised = "") =>
          \A d \in lca_dirs : InOrderOfBefore(d.matrix_mtx)

\* C28: a fetch whose request was posted ends, returning or raising, once the
\* service answers a status check with something other than 'In Progress';
\* it returns only on 'Complete' and raises only on another status, and as
\* long as the last answer is 'In Progress' it is still sleeping or polling.
C28_PollLoopEnds ==
    /\ [](fpc \in {"complete", "returned"} =>
             (status_log /= <<>> /\ LastStatus = "Complete"))
    /\ []((fpc = "raised" /\ posts = 1) =>
             (status_log /= <<>> /\ LastStatus \notin {"Complete", "In Progress"}))
    /\ []((status_log /= <<>> /\ LastStatus = "In Progress") => fpc \in {"sleep", "poll"})
    /\ (fpc = "poll") ~> (fpc \in {"returned", "raised"})

\* Three 'In Progress' answers, then 'Failed': the fetch raised.
C28_Witness ==
    /\ fpc = "raised"
    /\ status_log = <<"In Progress", "In Progress", "In Progress", "Failed">>
    /\ sleeps = 3

\* The positions of the obtain_matrix calls in the call log.
ObtainCalls == {k \in 1..Len(calls) : calls[k].fn = "obtain_matrix"}

\* C29: before the first obtain_matrix call filter_entity_id has been called
\* for every enumerated identifier and get_matrix_size for every admitted
\* one, and no filter_entity_id call follows an obtain_matrix call.
C29_AdmissionPrecedesFetch ==
    \A k \in ObtainCalls :
        /\ \A i \in 1..Len(get_entity_ids) :
               \E j \in 1..(k - 1) :
                   calls[j] = [fn |-> "filter_entity_id", id |-> get_entity_ids[i]]
        /\ \A id \in Ids :
               filter_entity_id(id).raised = "" =>
                   \E j \in 1..(k - 1) : calls[j] = [fn |-> "get_matrix_size", id |-> id]
        /\ \A j \in (k + 1)..Len(calls) : calls[j].fn /= "filter_entity_id"

\* Two matrices were fetched and one identifier was refused.
C29_Witness ==
    /\ Cardinality(ObtainCalls) = 2
    /\ Len(skips) = 1
    /\ pc = "done"

\* C30: when separate() raises for an unrecognized label (ValueError) or for
\* found labels that are no subset of the known ones (RuntimeError), the
\* matrix is as the call found it: barcodes.tsv still has its label column,
\* the known labels are unchanged and there is no label subdirectory.
C30_FailedSeparateLeavesMatrix ==
    (prep_call.op = "separate" /\ prep_call.raised \in {"ValueError", "RuntimeError"}) =>
        /\ barcodes_tsv = before.barcodes_tsv
        /\ info.lib_con_approaches = before.info.lib_con_approaches
        /\ lca_dirs = {}

\* C27: a matrix file written after filter_entries (by prune, or by separate()
\* into a label subdirectory) holds in each data line exactly the three
\* fields of a row of the file the call found, and nothing else.
C27_WriteEmitsThreeFields ==
    /\ (prep_call.op = "prune" /\ prep_call.raised = "") =>
          \A i \in 1..Len(matrix_mtx.lines) :
              /\ Len(matrix_mtx.lines[i]) = 3
              /\ matrix_mtx.lines[i] \in Range(before.matrix_mtx.lines)
    /\ (prep_call.op = "separate" /\ prep_call.raised = "") =>
          \A d \in lca_dirs :
              \A i \in 1..Len(d.matrix_mtx.lines) :
                  /\ Len(d.matrix_mtx.lines[i]) = 3
                  /\ d.matrix_mtx.lines[i] \in Range(before.matrix_mtx.lines)

\* C21: whatever methods were called on the Mtx since its load (process,
\* filter_entries with positions or with a predicate, write, in any order),
\* the file a write produced declares as its number of entries, the third
\* field of its sizes line, the number of data lines that follow.
C21_DeclaredCountIsLineCount ==
    (\E k \in 1..Len(mtx_ops.called) : mtx_ops.called[k] = "write") =>
        mtx_file.sizes[3] = Len(mtx_file.lines)

\* A file of two entries was loaded, coerced, cut down to one entry and
\* written.
C21_Witness ==
    /\ mtx_ops.called = <<"__init__", "process", "filter_entries", "write">>
    /\ Len(mtx_original.lines) = 2
    /\ Len(mtx_file.lines) = 1
    /\ mtx_file.sizes[3] = 1

\* The count token of a data line.
CountToken(line) == line[Len(line)]

\* The count tokens of a file are spelled as to_csv spells them: all integer
\* literals, or all decimals with one digit after the point.
SpelledAsWritten(file) ==
    \/ \A i \in 1..Len(file.lines) : ~has_point(CountToken(file.lines[i]))
    \/ \A i \in 1..Len(file.lines) :
          /\ has_point(CountToken(file.lines[i]))
          /\ Len(CountToken(file.lines[i])) = point(CountToken(file.lines[i])) + 1

\* C24 as stated: a valid file loaded and written back, with no call between,
\* has the header line and the data lines it had.
C24_RoundTripUnchanged ==
    mtx_ops.called = <<"__init__", "write">> =>
        /\ mtx_file.header = mtx_original.header
        /\ mtx_file.lines = mtx_original.lines

\* C24, amended: the header line is the same and the data lines are the same
\* entries in the same order (same indices, same count as a number); they
\* are the same text when the count tokens of the file were spelled as to_csv
\* spells them.
C24_RoundTripSameEntries ==
    mtx_ops.called = <<"__init__", "write">> =>
        /\ mtx_file.header = mtx_original.header
        /\ mtx_file.sizes = mtx_original.sizes
        /\ Len(mtx_file.lines) = Len(mtx_original.lines)
        /\ \A i \in 1..Len(mtx_file.lines) :
              /\ Len(mtx_file.lines[i]) = 3
              /\ mtx_file.lines[i][1] = mtx_original.lines[i][1]
              /\ mtx_file.lines[i][2] = mtx_original.lines[i][2]
              /\ tenths(mtx_file.lines[i][3]) = tenths(mtx_original.lines[i][3])
        /\ SpelledAsWritten(mtx_original) => mtx_file.lines = mtx_original.lines

\* Two entries with the counts '2.5' were loaded and written back as they
\* were.
C24_Witness ==
    /\ mtx_ops.called = <<"__init__", "write">>
    /\ Len(mtx_original.lines) = 2
    /\ \A i \in 1..2 : mtx_original.lines[i][3] = <<"2", ".", "5">>
    /\ mtx_file = mtx_original

\* C22: detect_header(N) on a Tsv of N rows returns False and keeps no header
\* and all N rows; on N + 1 rows it returns True, the first row is the header
\* and the other N rows are the data, in their order; on any other number of
\* rows it raises RuntimeError and header and data are as they were.
C22_DetectHeader ==
    tsv_call.op = "detect_header" =>
        LET found == tsv_call.found
            N == tsv_call.expected_size
        IN IF Len(found.data) = N
           THEN /\ tsv_call.returned = "False" /\ tsv_call.raised = ""
                /\ tsv_obj.header = "None"
                /\ tsv_obj.data = found.data
           ELSE IF Len(found.data) = N + 1
           THEN /\ tsv_call.returned = "True" /\ tsv_call.raised = ""
                /\ tsv_obj.header = found.data[1]
                /\ Len(tsv_obj.data) = N
                /\ \A i \in 1..N : tsv_obj.data[i] = found.data[i + 1]
           ELSE /\ tsv_call.raised = "RuntimeError" /\ tsv_call.returned = ""
                /\ tsv_obj = found

\* Three rows, two expected: the first row became the header.
C22_Witness ==
    /\ tsv_call.op = "detect_header"
    /\ tsv_call.expected_size = 2
    /\ Len(tsv_call.found.data) = 3
    /\ tsv_call.returned = "True"
    /\ tsv_obj.header = <<<<"k", "e", "y">>>>
    /\ tsv_obj.data = << <<<<"A">>>>, <<<<"B">>>> >>

\* The directory unzip extracted into, and the files right after extractall.
UnzipTarget == fs_call.cwd \o fs_call.found.info.extract_path

Extracted ==
    extractall_files(fs_call.found.files,
                     fs_call.found.zips[fs_call.found.info.zip_path], UnzipTarget)

\* The directories of the extracted tree that held a compressed matrix file.
MatrixDirs ==
    {d \in tree_dirs : under(d, UnzipTarget) /\ path_exists(Extracted, d, "matrix.mtx.gz")}

\* The compressed file of d that holds the row annotations.
RowAnnotations(d) ==
    IF path_exists(Extracted, d, "cells.tsv.gz") THEN "cells.tsv.gz" ELSE "barcodes.tsv.gz"

\* C23: unzip() of an archive returns one descriptor for every directory of
\* the extracted tree that held matrix.mtx.gz and none for another one; a
\* directory without it keeps its files as extracted; a returned directory
\* holds the three files uncompressed, the row annotations being those of
\* cells.tsv.gz when that file was there, and none of the .gz forms.
C23_UnzipFindsMatrixDirs ==
    (fs_call.op = "unzip" /\ fs_call.cwd = WorkDir) =>
        /\ fs_call.raised = ""
        /\ Len(fs_call.returned) = Cardinality(MatrixDirs)
        /\ {fs_call.returned[i].extract_path : i \in 1..Len(fs_call.returned)}
              = {relative(d, cwd) : d \in MatrixDirs}
        /\ \A d \in MatrixDirs :
              /\ \A k \in 1..3 : path_exists(files, d, CanonicalFiles[k])
              /\ read(files, d, "matrix.mtx") = decompress(read(Extracted, d, "matrix.mtx.gz"))
              /\ read(files, d, "genes.tsv") = decompress(read(Extracted, d, "genes.tsv.gz"))
              /\ read(files, d, "barcodes.tsv")
                    = decompress(read(Extracted, d, RowAnnotations(d)))
              /\ \A name \in {"matrix.mtx.gz", "genes.tsv.gz", "barcodes.tsv.gz",
                              "cells.tsv.gz"} : ~path_exists(files, d, name)
        /\ \A d \in tree_dirs \ MatrixDirs :
              {f \in files : f.dir = d} = {f \in Extracted : f.dir = d}

\* Both directories of the archive held a matrix, the upper one with its row
\* annotations under the legacy name: two descriptors.
C23_Witness ==
    /\ fs_call.op = "unzip"
    /\ fs_prev.op = "none"
    /\ Len(fs_call.returned) = 2
    /\ read(files, WorkDir \o ExtractPath, "barcodes.tsv")
          = Bytes(<<>>, "cells.tsv")
    /\ path_exists(files, WorkDir \o ExtractPath \o <<"p">>, "matrix.mtx")

\* C25: when a DirectoryChange context is left, by the end of its body or by
\* an exception, and whatever directory the body changed to, the working
\* directory is the one the context was entered in; preprocess(), separate()
\* and rezip(), which run inside such a context, leave the working directory
\* as they found it whether they return or raise.
C25_WorkingDirectoryRestored ==
    fs_call.op \in {"__exit__", "preprocess", "separate", "rezip"} => cwd = fs_call.cwd

\* rezip() entered the directory of a descriptor that has no matrix.mtx,
\* raised there, and the process is where it was.
C25_Witness ==
    /\ fs_call.op = "rezip"
    /\ fs_call.raised = "FileNotFoundError"
    /\ fs_call.cwd = WorkDir
    /\ WorkDir \o fs_info.extract_path \in fs_call.found.tree_dirs
    /\ cwd = WorkDir

\* The working directory of the descriptor that was rezipped.
RezipTarget(call) == call.cwd \o call.found.info.extract_path

\* C26: after rezip(zip_path) the archive at zip_path holds exactly the gzip
\* forms of the three canonical files as they were, the working directory
\* holds none of the three uncompressed (it is gone with remove_dir) and the
\* descriptor's zip_path is zip_path; an unzip() of that descriptor right
\* after returns one descriptor, of the same directory, whose three files
\* have the contents they had before the rezip.
C26_RezipThenUnzip ==
    /\ (fs_call.op = "rezip" /\ fs_call.raised = "" /\ fs_call.zip_path /= "None") =>
          /\ zips[fs_call.zip_path].exists
          /\ Cardinality(zips[fs_call.zip_path].members) = 3
          /\ \A k \in 1..3 :
                [dir |-> <<>>, name |-> gz(CanonicalFiles[k]),
                 data |-> compress(read(fs_call.found.files, RezipTarget(fs_call),
                                        CanonicalFiles[k]))]
                    \in zips[fs_call.zip_path].members
          /\ IF fs_call.flag
             THEN RezipTarget(fs_call) \notin tree_dirs
             ELSE \A k \in 1..3 :
                     ~path_exists(files, RezipTarget(fs_call), CanonicalFiles[k])
          /\ fs_info.zip_path = fs_call.zip_path
    /\ (/\ fs_call.op = "unzip"
        /\ fs_prev.op = "rezip" /\ fs_prev.raised = "" /\ fs_prev.zip_path /= "None") =>
          /\ fs_call.raised = ""
          /\ Len(fs_call.returned) = 1
          /\ fs_call.returned[1].extract_path = fs_prev.found.info.extract_path
          /\ \A k \in 1..3 :
                /\ path_exists(files, RezipTarget(fs_prev), CanonicalFiles[k])
                /\ read(files, RezipTarget(fs_prev), CanonicalFiles[k])
                      = read(fs_prev.found.files, RezipTarget(fs_prev), CanonicalFiles[k])

\* The files preprocess had rewritten were rezipped into mock.zip, the
\* directory was removed, and unzip brought the rewritten files back.
C26_Witness ==
    /\ fs_call.op = "unzip"
    /\ fs_prev.op = "rezip"
    /\ fs_prev.zip_path = "mock.zip"
    /\ fs_prev.flag
    /\ Len(fs_call.returned) = 1
    /\ \A k \in 1..3 :
          /\ path_exists(files, RezipTarget(fs_prev), CanonicalFiles[k])
          /\ read(files, RezipTarget(fs_prev), CanonicalFiles[k]).rewritten

====
